---- MODULE Spec2Model ----
(***************************************************************************)
(* Model of the logistic-regression core of DiabetesAI:                    *)
(*   utils/mlModel  (LogisticRegression, trainDiabetesModel,               *)
(*                   calculateMetrics)                                     *)
(*   utils/csvParser (getDatasetType)                                      *)
(*                                                                         *)
(* JavaScript numbers are modelled as records [k, v]:                      *)
(*   k = "fin": a finite number, v its value in units of 1/Scale           *)
(*   k = "nan": NaN                                                        *)
(*   k = "inf": +Infinity (v = 1) or -Infinity (v = -1)                    *)
(*   k = "undefined": the value of a property an object does not have      *)
(* Strings that the code inspects character by character (column names)    *)
(* are sequences of one-character strings.                                 *)
(***************************************************************************)
EXTENDS Integers, Sequences, FiniteSets, TLC

\* ------------------------------------------------------------------------
\* Bounds of the model
\* ------------------------------------------------------------------------
\* largest number of rows in a dataset handed to trainDiabetesModel
MaxRows == 3
\* iterations of gradient descent (the code passes 1000, see iterations)
MaxIterations == 2
\* longest label/prediction array handed to calculateMetrics on its own
MaxLen == 4
\* the last value of Date.now() at which an account or a prediction is made
MaxClock == 3

\* fixed-point resolution of the finite numbers
Scale == 10 * 1000

\* ------------------------------------------------------------------------
\* JavaScript numbers
\* ------------------------------------------------------------------------
Fin(v) == [k |-> "fin", v |-> v]
Num(i) == Fin(i * Scale)
NaN == [k |-> "nan", v |-> 0]
PInf == [k |-> "inf", v |-> 1]
NInf == [k |-> "inf", v |-> -1]
Undefined == [k |-> "undefined", v |-> 0]

\* the number an arithmetic operator or a comparison sees: undefined is NaN
ToNumber(x) == IF x.k = "undefined" THEN NaN ELSE x

isNaN(x) == x.k = "nan"
IsFinite(x) == x.k = "fin"

Sign(i) == IF i > 0 THEN 1 ELSE IF i < 0 THEN -1 ELSE 0
Abs(i) == IF i < 0 THEN -i ELSE i

\* integer division rounding toward zero
QuotT(a, b) == Sign(a) * Sign(b) * (Abs(a) \div Abs(b))

Neg(x) == IF x.k = "nan" THEN NaN ELSE [k |-> x.k, v |-> -(x.v)]

\* x + y
Add(x, y) ==
  IF x.k = "nan" \/ y.k = "nan" THEN NaN
  ELSE IF x.k = "inf" /\ y.k = "inf" THEN (IF x.v = y.v THEN x ELSE NaN)
  ELSE IF x.k = "inf" THEN x
  ELSE IF y.k = "inf" THEN y
  ELSE Fin(x.v + y.v)

\* x - y
Sub(x, y) == Add(x, Neg(y))

\* x * y, for finite values held in units of 1/unit
MulAt(unit, x, y) ==
  IF x.k = "nan" \/ y.k = "nan" THEN NaN
  ELSE IF x.k = "inf" \/ y.k = "inf"
    THEN (IF Sign(x.v) * Sign(y.v) = 0 THEN NaN
          ELSE [k |-> "inf", v |-> Sign(x.v) * Sign(y.v)])
  ELSE Fin(QuotT(x.v * y.v, unit))

\* x / y, for finite values held in units of 1/unit
DivAt(unit, x, y) ==
  IF x.k = "nan" \/ y.k = "nan" THEN NaN
  ELSE IF x.k = "inf"
    THEN (IF y.k = "inf" THEN NaN
          ELSE [k |-> "inf", v |-> x.v * (IF y.v < 0 THEN -1 ELSE 1)])
  ELSE IF y.k = "inf" THEN Fin(0)
  ELSE IF y.v = 0
    THEN (IF x.v = 0 THEN NaN ELSE [k |-> "inf", v |-> Sign(x.v)])
  ELSE Fin(QuotT(x.v * unit, y.v))

\* x * y
Mul(x, y) == MulAt(Scale, x, y)

\* x / y
Div(x, y) == DivAt(Scale, x, y)

\* x >= y (false when either side is NaN)
Ge(x, y) ==
  IF x.k = "nan" \/ y.k = "nan" THEN FALSE
  ELSE IF x.k = "inf" /\ y.k = "inf" THEN x.v >= y.v
  ELSE IF x.k = "inf" THEN x.v > 0
  ELSE IF y.k = "inf" THEN y.v < 0
  ELSE x.v >= y.v

\* x > y
Gt(x, y) == Ge(x, y) /\ x # y

\* x || d : d when x is falsy (0, NaN or undefined)
OrElse(x, d) ==
  IF x.k = "nan" \/ x.k = "undefined" \/ (x.k = "fin" /\ x.v = 0) THEN d ELSE x

\* floor of the square root of a natural number, by bisection on [lo, hi]
RECURSIVE ISqrtIn(_, _, _)
ISqrtIn(n, lo, hi) ==
  IF lo >= hi THEN lo
  ELSE LET mid == (lo + hi + 1) \div 2
       IN IF mid * mid <= n THEN ISqrtIn(n, mid, hi) ELSE ISqrtIn(n, lo, mid - 1)

ISqrt(n) == ISqrtIn(n, 0, 46340)

\* Math.sqrt
Sqrt(x) ==
  IF x.k = "nan" THEN NaN
  ELSE IF x.k = "inf" THEN (IF x.v > 0 THEN PInf ELSE NaN)
  ELSE IF x.v < 0 THEN NaN
  ELSE Fin(ISqrt(x.v * Scale))

\* Math.min, Math.max (NaN if either argument is NaN)
MathMin(x, y) == IF x.k = "nan" \/ y.k = "nan" THEN NaN ELSE IF Ge(x, y) THEN y ELSE x
MathMax(x, y) == IF x.k = "nan" \/ y.k = "nan" THEN NaN ELSE IF Ge(x, y) THEN x ELSE y

\* ------------------------------------------------------------------------
\* LogisticRegression (utils/mlModel)
\* ------------------------------------------------------------------------
\* 1 / (1 + exp(-z)) at z = 0, 1, ..., 10, in units of 1/10000
LogisticKnots == <<5000, 7311, 8808, 9526, 9820, 9933, 9975, 9991, 9997, 9999, 10000>>

\* 1 / (1 + exp(-a)) for a finite a >= 0 given in units of 1/Scale: the
\* logistic curve, interpolated linearly between its values at the integers
LogisticPos(a) ==
  LET i == a \div Scale
      f == a % Scale
  IN IF i >= 10 THEN Scale
     ELSE LET lo == LogisticKnots[i + 1]
              hi == LogisticKnots[i + 2]
          IN ((lo * Scale + (hi - lo) * f) \div 10000)

\* 1 / (1 + Math.exp(-x))
Logistic(x) ==
  IF x.k = "nan" THEN NaN
  ELSE IF x.k = "inf" THEN (IF x.v > 0 THEN Fin(Scale) ELSE Fin(0))
  ELSE IF x.v >= 0 THEN Fin(LogisticPos(x.v))
  ELSE Fin(Scale - LogisticPos(-(x.v)))

\* LogisticRegression.sigmoid
sigmoid(z) == Logistic(MathMax(Num(-250), MathMin(Num(250), z)))

\* row.reduce((sum, val, idx) => sum + val * weights[idx], bias); weights[idx]
\* beyond the end of weights is undefined, and val * undefined is NaN
RECURSIVE Dot(_, _, _, _)
Dot(row, weights, idx, sum) ==
  IF idx > Len(row) THEN sum
  ELSE Dot(row, weights, idx + 1,
           Add(sum, Mul(row[idx], IF idx <= Len(weights) THEN weights[idx] ELSE NaN)))

\* the learning rate and the iteration count trainDiabetesModel constructs
\* its LogisticRegression with: new LogisticRegression(0.01, 1000)
learningRate == Fin(Scale \div 100)
iterations == MaxIterations

\* array[idx], undefined beyond the end of the array,
\* which arithmetic turns into NaN
At(array, idx) == IF idx \in DOMAIN array THEN array[idx] ELSE NaN

\* db: the sum over the rows j of predictions[j] - y[j]
RECURSIVE GradBias(_, _, _)
GradBias(predictions, y, j) ==
  IF j > Len(predictions) THEN Num(0)
  ELSE Add(Sub(predictions[j], At(y, j)), GradBias(predictions, y, j + 1))

\* dw[k]: the sum over the rows j of (predictions[j] - y[j]) * X[j][k]
RECURSIVE GradWeight(_, _, _, _, _)
GradWeight(X, predictions, y, k, j) ==
  IF j > Len(X) THEN Num(0)
  ELSE Add(Mul(Sub(predictions[j], At(y, j)), At(X[j], k)),
           GradWeight(X, predictions, y, k, j + 1))

\* lines 118-121: z and the sigmoid of it, for one row
forward(row, w) ==
  CHOOSE prediction \in {sigmoid(z) : z \in {Dot(row, w.weights, 1, w.bias)}} : TRUE

\* mutant of TrainStep: the gradients not divided by the number of rows
TrainStepUnaveraged(X, y, w) ==
  CHOOSE updated \in
    {[weights |-> [k \in 1..Len(w.weights) |->
                     Sub(w.weights[k], Mul(learningRate, dw[k]))],
      bias |-> Sub(w.bias, Mul(learningRate, db))] :
       <<dw, db>> \in
         {<<[k \in 1..Len(w.weights) |-> GradWeight(X, predictions, y, k, 1)],
            GradBias(predictions, y, 1)>> :
            predictions \in {[j \in 1..Len(X) |-> forward(X[j], w)]}}} : TRUE

\* one pass of the loop body of train: forward propagation, gradients, update
\* (each intermediate value is computed once and then named, as in the code)
TrainStep(X, y, w) ==
  CHOOSE updated \in
    {[weights |-> [k \in 1..Len(w.weights) |->
                     Sub(w.weights[k], Div(Mul(learningRate, dw[k]), Num(Len(X))))],
      bias |-> Sub(w.bias, Div(Mul(learningRate, db), Num(Len(X))))] :
       <<dw, db>> \in
         {<<[k \in 1..Len(w.weights) |-> GradWeight(X, predictions, y, k, 1)],
            GradBias(predictions, y, 1)>> :
            predictions \in {[j \in 1..Len(X) |-> forward(X[j], w)]}}} : TRUE

RECURSIVE TrainLoop(_, _, _, _)
TrainLoop(X, y, w, i) ==
  IF i >= iterations THEN w ELSE TrainLoop(X, y, TrainStep(X, y, w), i + 1)

\* LogisticRegression.train: the weights and bias it leaves in the object, or
\* the TypeError of X[0].length when X is empty
train(X, y) ==
  IF Len(X) = 0 THEN [threw |-> "TypeError", weights |-> <<>>, bias |-> NaN]
  ELSE LET w == TrainLoop(X, y, [weights |-> [k \in 1..Len(X[1]) |-> Num(0)],
                                 bias |-> Num(0)], 0)
       IN [threw |-> "", weights |-> w.weights, bias |-> w.bias]

\* LogisticRegression.predictProbability
predictProbability(w, x) == sigmoid(Dot(x, w.weights, 1, w.bias))

\* mutant of predict: the label 1 only for a probability above 0.5
predictStrict(w, x) ==
  LET z == Dot(x, w.weights, 1, w.bias)
      probability == sigmoid(z)
  IN IF Gt(probability, Fin(Scale \div 2)) THEN Num(1) ELSE Num(0)

\* LogisticRegression.predict
predict(w, x) ==
  LET z == Dot(x, w.weights, 1, w.bias)
      probability == sigmoid(z)
  IN IF Ge(probability, Fin(Scale \div 2)) THEN Num(1) ELSE Num(0)

\* ------------------------------------------------------------------------
\* Strings: sequences of one-character strings
\* ------------------------------------------------------------------------
UpperCase == <<"A", "B", "C", "D", "E", "F", "G", "H", "I", "J", "K", "L", "M",
               "N", "O", "P", "Q", "R", "S", "T", "U", "V", "W", "X", "Y", "Z">>
LowerCase == <<"a", "b", "c", "d", "e", "f", "g", "h", "i", "j", "k", "l", "m",
               "n", "o", "p", "q", "r", "s", "t", "u", "v", "w", "x", "y", "z">>
Digits == <<"0", "1", "2", "3", "4", "5", "6", "7", "8", "9">>
WhiteSpace == {" ", "\t"}

Range(s) == {s[i] : i \in DOMAIN s}
IndexOf(s, c) == CHOOSE i \in DOMAIN s : s[i] = c
UpperCaseLetters == Range(UpperCase)
DigitCharacters == Range(Digits)
LowerAlnumCharacters == Range(LowerCase) \cup Range(Digits)

\* String.prototype.toLowerCase
toLowerCase(s) ==
  [i \in DOMAIN s |->
     IF s[i] \in UpperCaseLetters THEN LowerCase[IndexOf(UpperCase, s[i])] ELSE s[i]]

\* String.prototype.trim
RECURSIVE trimStart(_)
trimStart(s) == IF s # <<>> /\ Head(s) \in WhiteSpace THEN trimStart(Tail(s)) ELSE s

RECURSIVE trimEnd(_)
trimEnd(s) ==
  IF s # <<>> /\ s[Len(s)] \in WhiteSpace THEN trimEnd(SubSeq(s, 1, Len(s) - 1)) ELSE s

trim(s) == trimEnd(trimStart(s))

\* s.replace(/[^a-z0-9]/g, '')
IsLowerAlnum(c) == c \in LowerAlnumCharacters
replaceNonAlnum(s) == SelectSeq(s, IsLowerAlnum)

\* col.toLowerCase().trim().replace(/[^a-z0-9]/g, '')
normalizeColumn(col) == replaceNonAlnum(trim(toLowerCase(col)))

\* array.includes(x)
includes(array, x) == \E i \in DOMAIN array : array[i] = x

\* array.filter(x => other.includes(x))
filterIncluded(array, other) == SelectSeq(array, LAMBDA x : includes(other, x))

\* the value of a string of decimal digits
RECURSIVE DigitsValue(_, _)
DigitsValue(s, acc) ==
  IF s = <<>> THEN acc ELSE DigitsValue(Tail(s), 10 * acc + (IndexOf(Digits, Head(s)) - 1))

IsDigits(s) == s # <<>> /\ \A i \in DOMAIN s : s[i] \in DigitCharacters

\* Number(string), for the strings of the model: white space is trimmed, the
\* empty string is 0, an optionally signed run of digits is its value,
\* "Infinity" is Infinity and any other text is NaN
StringToNumber(s) ==
  LET t == trimEnd(trimStart(s))
  IN IF t = <<>> THEN Num(0)
     ELSE IF t = <<"I", "n", "f", "i", "n", "i", "t", "y">> THEN PInf
     ELSE IF t = <<"-", "I", "n", "f", "i", "n", "i", "t", "y">> THEN NInf
     ELSE IF IsDigits(t) THEN Num(DigitsValue(t, 0))
     ELSE IF Head(t) = "-" /\ IsDigits(Tail(t)) THEN Num(-DigitsValue(Tail(t), 0))
     ELSE NaN

\* ------------------------------------------------------------------------
\* Dataset cells (types/index.ts DatasetRow, and what csvParser puts there)
\* ------------------------------------------------------------------------
CellNumber(x) == [t |-> "number", v |-> x, s |-> <<>>]
CellString(s) == [t |-> "string", v |-> NaN, s |-> s]
CellNull == [t |-> "null", v |-> NaN, s |-> <<>>]
CellUndefined == [t |-> "undefined", v |-> NaN, s |-> <<>>]

\* row[column]: undefined when the row has no such key
Get(row, column) == IF column \in DOMAIN row THEN row[column] ELSE CellUndefined

\* Number(value)
Number(cell) ==
  IF cell.t = "number" THEN cell.v
  ELSE IF cell.t = "null" THEN Num(0)
  ELSE IF cell.t = "string" THEN StringToNumber(cell.s)
  ELSE NaN

\* ------------------------------------------------------------------------
\* getDatasetType (utils/csvParser)
\* ------------------------------------------------------------------------
n_outcome == <<"o", "u", "t", "c", "o", "m", "e">>
n_glucose == <<"g", "l", "u", "c", "o", "s", "e">>
n_bmi == <<"b", "m", "i">>
n_age == <<"a", "g", "e">>
n_diabetesbinary == <<"d", "i", "a", "b", "e", "t", "e", "s", "b", "i", "n", "a", "r", "y">>
n_diabetes012 == <<"d", "i", "a", "b", "e", "t", "e", "s", "0", "1", "2">>

comprehensiveFeatures ==
  <<<<"h", "i", "g", "h", "b", "p">>,
    <<"h", "i", "g", "h", "c", "h", "o", "l">>,
    <<"c", "h", "o", "l", "c", "h", "e", "c", "k">>,
    <<"b", "m", "i">>,
    <<"s", "m", "o", "k", "e", "r">>,
    <<"s", "t", "r", "o", "k", "e">>,
    <<"h", "e", "a", "r", "t", "d", "i", "s", "e", "a", "s", "e", "o", "r", "a", "t", "t", "a", "c", "k">>,
    <<"p", "h", "y", "s", "a", "c", "t", "i", "v", "i", "t", "y">>,
    <<"f", "r", "u", "i", "t", "s">>,
    <<"v", "e", "g", "g", "i", "e", "s">>>>

basicFeatures == <<<<"g", "l", "u", "c", "o", "s", "e">>, <<"b", "l", "o", "o", "d", "p", "r", "e", "s", "s", "u", "r", "e">>, <<"b", "m", "i">>>>

\* dataset.columns.map(col => col.toLowerCase().trim().replace(...))
normalizedColumnsOf(dataset) ==
  [i \in DOMAIN dataset.columns |-> normalizeColumn(dataset.columns[i])]

\* mutant of getDatasetType: one basic feature is enough
getDatasetTypeLenient(dataset) ==
  LET normalizedColumns == normalizedColumnsOf(dataset)
      hasComprehensiveFeatures ==
        Len(filterIncluded(comprehensiveFeatures, normalizedColumns)) >= 5
      hasBasicFeatures == Len(filterIncluded(basicFeatures, normalizedColumns)) >= 1
  IN IF hasComprehensiveFeatures THEN "comprehensive"
     ELSE IF hasBasicFeatures THEN "basic"
     ELSE "basic"

getDatasetType(dataset) ==
  LET normalizedColumns == normalizedColumnsOf(dataset)
      hasComprehensiveFeatures ==
        Len(filterIncluded(comprehensiveFeatures, normalizedColumns)) >= 5
      hasBasicFeatures == Len(filterIncluded(basicFeatures, normalizedColumns)) >= 2
  IN IF hasComprehensiveFeatures THEN "comprehensive"
     ELSE IF hasBasicFeatures THEN "basic"
     ELSE "unknown"

\* ------------------------------------------------------------------------
\* validateDiabetesDataset (utils/csvParser)
\* ------------------------------------------------------------------------
\* value === null || value === undefined || value === ''
IsMissing(cell) ==
  cell.t = "null" \/ cell.t = "undefined" \/ (cell.t = "string" /\ cell.s = <<>>)

\* rowNullCount of one row: the entries of the row that are missing
rowNullCountOf(row) == Cardinality({key \in DOMAIN row : IsMissing(row[key])})

\* the sum of f[i] over the indices i .. n
RECURSIVE Total(_, _, _)
Total(f, i, n) == IF i > n THEN 0 ELSE f[i] + Total(f, i + 1, n)

\* lines 188-230: the data quality errors, over the first 50 rows
qualityErrors(dataset) ==
  LET sampleSize == IF Len(dataset.data) < 50 THEN Len(dataset.data) ELSE 50
      sample == 1..sampleSize
      validRowCount ==
        Cardinality({i \in sample :
                       2 * rowNullCountOf(dataset.data[i])
                         < Cardinality(DOMAIN dataset.data[i])})
      nullValueCount == Total([i \in sample |-> rowNullCountOf(dataset.data[i])], 1, sampleSize)
      totalValueCount ==
        Total([i \in sample |-> Cardinality(DOMAIN dataset.data[i])], 1, sampleSize)
  IN (IF validRowCount = 0 THEN <<"No valid data rows found">>
      ELSE IF 10 * validRowCount < 3 * sampleSize THEN <<"Data quality issue">>
      ELSE <<>>)
     \o (IF totalValueCount > 0 /\ 100 * nullValueCount > 50 * totalValueCount
          THEN <<"High percentage of missing values">> ELSE <<>>)

\* lines 133-185: the errors about the size and the columns of the dataset
structureErrors(dataset) ==
  LET normalizedColumns == normalizedColumnsOf(dataset)
      targetColumns == <<n_diabetesbinary, n_diabetes012, n_outcome>>
      hasTargetColumn ==
        \E i \in DOMAIN targetColumns : includes(normalizedColumns, targetColumns[i])
      hasComprehensiveFeatures ==
        Len(filterIncluded(comprehensiveFeatures, normalizedColumns)) >= 5
      hasBasicFeatures == Len(filterIncluded(basicFeatures, normalizedColumns)) >= 2
  IN (IF Len(dataset.data) < 5 THEN <<"Dataset too small">> ELSE <<>>)
     \o (IF Len(dataset.columns) < 3 THEN <<"Too few columns">> ELSE <<>>)
     \o (IF ~hasTargetColumn THEN <<"Missing target column">> ELSE <<>>)
     \o (IF ~includes(normalizedColumns, n_age)
          THEN <<"Missing required column: age">> ELSE <<>>)
     \o (IF ~hasComprehensiveFeatures /\ ~hasBasicFeatures
          THEN <<"Dataset format not recognized">> ELSE <<>>)

\* validateDiabetesDataset: the errors it returns (rowValid, which the loop
\* sets for a bad age, is read nowhere)
validateDiabetesDataset(dataset) ==
  LET errors == structureErrors(dataset)
  IN IF errors = <<>> THEN qualityErrors(dataset) ELSE errors

\* ------------------------------------------------------------------------
\* trainDiabetesModel (utils/mlModel)
\* ------------------------------------------------------------------------
\* the feature lists of trainDiabetesModel, before filtering
featuresComprehensive ==
  <<<<"h", "i", "g", "h", "b", "p">>,
    <<"h", "i", "g", "h", "c", "h", "o", "l">>,
    <<"c", "h", "o", "l", "c", "h", "e", "c", "k">>,
    <<"b", "m", "i">>,
    <<"s", "m", "o", "k", "e", "r">>,
    <<"s", "t", "r", "o", "k", "e">>,
    <<"h", "e", "a", "r", "t", "d", "i", "s", "e", "a", "s", "e", "o", "r", "a", "t", "t", "a", "c", "k">>,
    <<"p", "h", "y", "s", "a", "c", "t", "i", "v", "i", "t", "y">>,
    <<"f", "r", "u", "i", "t", "s">>,
    <<"v", "e", "g", "g", "i", "e", "s">>,
    <<"h", "v", "y", "a", "l", "c", "o", "h", "o", "l", "c", "o", "n", "s", "u", "m", "p">>,
    <<"a", "n", "y", "h", "e", "a", "l", "t", "h", "c", "a", "r", "e">>,
    <<"n", "o", "d", "o", "c", "b", "c", "c", "o", "s", "t">>,
    <<"g", "e", "n", "h", "l", "t", "h">>,
    <<"m", "e", "n", "t", "h", "l", "t", "h">>,
    <<"p", "h", "y", "s", "h", "l", "t", "h">>,
    <<"d", "i", "f", "f", "w", "a", "l", "k">>,
    <<"s", "e", "x">>,
    <<"a", "g", "e">>,
    <<"e", "d", "u", "c", "a", "t", "i", "o", "n">>,
    <<"i", "n", "c", "o", "m", "e">>>>

featuresBasic == <<<<"g", "l", "u", "c", "o", "s", "e">>, <<"b", "l", "o", "o", "d", "p", "r", "e", "s", "s", "u", "r", "e">>, <<"b", "m", "i">>, <<"a", "g", "e">>>>

\* columnMapping: for every normalized column name, the original name of the
\* last column that normalizes to it (later columns overwrite earlier ones)
columnMappingOf(dataset) ==
  LET normalizedColumns == normalizedColumnsOf(dataset)
  IN [key \in Range(normalizedColumns) |->
        dataset.columns[CHOOSE i \in DOMAIN normalizedColumns :
                          /\ normalizedColumns[i] = key
                          /\ \A j \in DOMAIN normalizedColumns :
                               normalizedColumns[j] = key => j <= i]]

\* columnMapping[key]: undefined when no column normalizes to key
lookup(columnMapping, key) ==
  IF key \in DOMAIN columnMapping
    THEN [defined |-> TRUE, name |-> columnMapping[key]]
    ELSE [defined |-> FALSE, name |-> <<>>]

\* truthiness of a columnMapping[...] lookup: undefined and '' are falsy
Truthy(entry) == entry.defined /\ entry.name # <<>>

\* mutant of resolveFeatures: the dataset's columns that are features, in the
\* dataset's column order
resolveFeaturesInColumnOrder(datasetType, normalizedColumns) ==
  IF datasetType = "comprehensive"
    THEN filterIncluded(normalizedColumns, featuresComprehensive)
  ELSE IF datasetType = "basic" THEN filterIncluded(normalizedColumns, featuresBasic)
  ELSE <<>>

\* the features of the dataset type, filtered by normalizedColumns.includes
resolveFeatures(datasetType, normalizedColumns) ==
  IF datasetType = "comprehensive"
    THEN filterIncluded(featuresComprehensive, normalizedColumns)
  ELSE IF datasetType = "basic" THEN filterIncluded(featuresBasic, normalizedColumns)
  ELSE <<>>

\* targetColumn: '' when a comprehensive dataset has neither target column
resolveTarget(datasetType, normalizedColumns) ==
  IF datasetType = "comprehensive"
    THEN (IF includes(normalizedColumns, n_diabetesbinary) THEN n_diabetesbinary
          ELSE IF includes(normalizedColumns, n_diabetes012) THEN n_diabetes012
          ELSE <<>>)
  ELSE IF datasetType = "basic" THEN n_outcome
  ELSE <<>>

\* the body of features.forEach for one row: the values pushed to featureRow
RECURSIVE featureRowOf(_, _, _, _)
featureRowOf(columnMapping, row, features, i) ==
  IF i > Len(features) THEN <<>>
  ELSE LET actualColumn == lookup(columnMapping, features[i])
       IN (IF Truthy(actualColumn) THEN <<Number(Get(row, actualColumn.name))>> ELSE <<>>)
          \o featureRowOf(columnMapping, row, features, i + 1)

\* isValid after features.forEach for one row
isValidRow(columnMapping, row, features) ==
  \A i \in DOMAIN features :
    LET actualColumn == lookup(columnMapping, features[i])
    IN Truthy(actualColumn) /\ ~isNaN(Number(Get(row, actualColumn.name)))

\* target of one row, after the handling of the diabetes012 format
targetOf(row, targetColumn, actualTargetColumn) ==
  LET target == Number(Get(row, actualTargetColumn))
  IN IF targetColumn = n_diabetes012
       THEN (IF Gt(target, Num(0)) THEN Num(1) ELSE Num(0))
       ELSE target

\* whether dataset.data.forEach pushes the row to X and y
keepsRow(columnMapping, row, features, targetColumn, actualTargetColumn) ==
  ~(isNaN(targetOf(row, targetColumn, actualTargetColumn))
    \/ ~isValidRow(columnMapping, row, features))

\* the indices of dataset.data whose rows are pushed, in order
keptRows(dataset, columnMapping, features, targetColumn, actualTargetColumn) ==
  SelectSeq([i \in DOMAIN dataset.data |-> i],
            LAMBDA i : keepsRow(columnMapping, dataset.data[i], features, targetColumn,
                                actualTargetColumn))

\* X.reduce((sum, row) => sum + f(row), 0) for a column of values
RECURSIVE SumFrom(_, _, _)
SumFrom(values, i, sum) ==
  IF i > Len(values) THEN sum ELSE SumFrom(values, i + 1, Add(sum, values[i]))

\* means[i]
meanOf(X, i) == Div(SumFrom([r \in DOMAIN X |-> X[r][i]], 1, Num(0)), Num(Len(X)))

\* stds[i]
stdOf(X, i, mean) ==
  LET variance ==
        Div(SumFrom([r \in DOMAIN X |-> LET d == Sub(X[r][i], mean) IN Mul(d, d)],
                    1, Num(0)),
            Num(Len(X)))
  IN OrElse(Sqrt(variance), Num(1))

\* stds[idx] === 0 ? 0 : (val - means[idx]) / stds[idx]
normalizeValue(val, mean, std) ==
  IF std = Num(0) THEN Num(0) ELSE Div(Sub(val, mean), std)

normalizeRow(row, means, stds) ==
  [idx \in DOMAIN row |->
     IF idx <= Len(stds) THEN normalizeValue(row[idx], means[idx], stds[idx]) ELSE NaN]

\* mutant of splitIndexOf: an even split
splitIndexHalf(n) == n \div 2

\* Math.floor(X.length * 0.8)
splitIndexOf(n) == (n * 8) \div 10

\* array.slice(from) and array.slice(0, to), with 0-based from and to
sliceFrom(array, from) == SubSeq(array, from + 1, Len(array))
sliceTo(array, to) == SubSeq(array, 1, to)

\* ------------------------------------------------------------------------
\* calculateMetrics (utils/mlModel)
\* ------------------------------------------------------------------------
\* the counting loop: [tp, fp, tn, fn] after indices i .. yTrue.length
RECURSIVE countLoop(_, _, _, _)
countLoop(yTrue, yPred, i, c) ==
  IF i > Len(yTrue) THEN c
  ELSE LET p == IF i <= Len(yPred) THEN yPred[i] ELSE NaN
           t == yTrue[i]
       IN countLoop(yTrue, yPred, i + 1,
            IF t = Num(1) /\ p = Num(1) THEN [c EXCEPT !.tp = @ + 1]
            ELSE IF t = Num(0) /\ p = Num(1) THEN [c EXCEPT !.fp = @ + 1]
            ELSE IF t = Num(0) /\ p = Num(0) THEN [c EXCEPT !.tn = @ + 1]
            ELSE IF t = Num(1) /\ p = Num(0) THEN [c EXCEPT !.fn = @ + 1]
            ELSE c)

\* mutant of metricsOf: the confusion matrix laid out as [[TP, FP], [FN, TN]]
metricsOfTransposed(c) ==
  LET accuracy == Div(Num(c.tp + c.tn), Num(c.tp + c.fp + c.tn + c.fn))
      precision == OrElse(Div(Num(c.tp), Num(c.tp + c.fp)), Num(0))
      recall == OrElse(Div(Num(c.tp), Num(c.tp + c.fn)), Num(0))
      f1Score == OrElse(Div(Mul(Num(2), Mul(precision, recall)), Add(precision, recall)),
                        Num(0))
  IN [accuracy |-> accuracy, precision |-> precision, recall |-> recall,
      f1Score |-> f1Score, confusionMatrix |-> <<<<c.tp, c.fp>>, <<c.fn, c.tn>>>>]

\* mutant of metricsOf: the ratios without their "|| 0"
metricsOfUnguarded(c) ==
  LET accuracy == Div(Num(c.tp + c.tn), Num(c.tp + c.fp + c.tn + c.fn))
      precision == Div(Num(c.tp), Num(c.tp + c.fp))
      recall == Div(Num(c.tp), Num(c.tp + c.fn))
      f1Score == Div(Mul(Num(2), Mul(precision, recall)), Add(precision, recall))
  IN [accuracy |-> accuracy, precision |-> precision, recall |-> recall,
      f1Score |-> f1Score, confusionMatrix |-> <<<<c.tn, c.fp>>, <<c.fn, c.tp>>>>]

\* lines 308-319: the ratios and the confusion matrix of the four counts
metricsOf(c) ==
  LET accuracy == Div(Num(c.tp + c.tn), Num(c.tp + c.fp + c.tn + c.fn))
      precision == OrElse(Div(Num(c.tp), Num(c.tp + c.fp)), Num(0))
      recall == OrElse(Div(Num(c.tp), Num(c.tp + c.fn)), Num(0))
      f1Score == OrElse(Div(Mul(Num(2), Mul(precision, recall)), Add(precision, recall)),
                        Num(0))
  IN [accuracy |-> accuracy, precision |-> precision, recall |-> recall,
      f1Score |-> f1Score, confusionMatrix |-> <<<<c.tn, c.fp>>, <<c.fn, c.tp>>>>]

calculateMetrics(yTrue, yPred) ==
  metricsOf(countLoop(yTrue, yPred, 1, [tp |-> 0, fp |-> 0, tn |-> 0, fn |-> 0]))

NoMetrics == [accuracy |-> NaN, precision |-> NaN, recall |-> NaN, f1Score |-> NaN,
              confusionMatrix |-> <<>>]

\* ------------------------------------------------------------------------
\* trainDiabetesModel: the whole call
\* ------------------------------------------------------------------------
\* What a call of trainDiabetesModel leaves behind: the error it threw ("" if
\* none), the steps it performed, its locals as far as they were computed and
\* the members and captured variables of the Model it returned.
BlankRun(dataset) ==
  [dataset |-> dataset, threw |-> "", steps |-> <<>>, datasetType |-> "unknown",
   features |-> <<>>, targetColumn |-> <<>>, actualTargetColumn |-> <<>>,
   kept |-> <<>>, X |-> <<>>, y |-> <<>>, means |-> <<>>, stds |-> <<>>,
   XNormalized |-> <<>>, splitIndex |-> 0, XTrain |-> <<>>, yTrain |-> <<>>,
   XTest |-> <<>>, yTest |-> <<>>, weights |-> <<>>, bias |-> NaN,
   predictions |-> <<>>, metrics |-> NoMetrics, trainer |-> 0]

\* lines 155-198: dataset type, features, target column
Configure(r) ==
  LET normalizedColumns == normalizedColumnsOf(r.dataset)
      datasetType == getDatasetType(r.dataset)
      targetColumn == resolveTarget(datasetType, normalizedColumns)
      actualTargetColumn == lookup(columnMappingOf(r.dataset), targetColumn)
  IN IF datasetType = "unknown"
       THEN [r EXCEPT !.threw = "Unsupported dataset format", !.steps = <<"type">>]
     ELSE [r EXCEPT !.threw = IF Truthy(actualTargetColumn) THEN ""
                               ELSE "Target column not found",
                    !.steps = <<"type", "target">>,
                    !.datasetType = datasetType,
                    !.features = resolveFeatures(datasetType, normalizedColumns),
                    !.targetColumn = targetColumn,
                    !.actualTargetColumn = actualTargetColumn.name]

\* mutant of Extract: no check that a row survived
ExtractUnchecked(r) ==
  LET columnMapping == columnMappingOf(r.dataset)
      kept == keptRows(r.dataset, columnMapping, r.features, r.targetColumn,
                       r.actualTargetColumn)
  IN IF r.threw # "" THEN r
     ELSE [r EXCEPT !.steps = @ \o <<"rows">>,
                    !.kept = kept,
                    !.X = [j \in DOMAIN kept |->
                             featureRowOf(columnMapping, r.dataset.data[kept[j]],
                                          r.features, 1)],
                    !.y = [j \in DOMAIN kept |->
                             targetOf(r.dataset.data[kept[j]], r.targetColumn,
                                      r.actualTargetColumn)]]

\* lines 203-242: X and y
Extract(r) ==
  LET columnMapping == columnMappingOf(r.dataset)
      kept == keptRows(r.dataset, columnMapping, r.features, r.targetColumn,
                       r.actualTargetColumn)
  IN IF r.threw # "" THEN r
     ELSE [r EXCEPT !.threw = IF Len(kept) = 0 THEN "No valid data found for training"
                               ELSE "",
                    !.steps = @ \o <<"rows">>,
                    !.kept = kept,
                    !.X = [j \in DOMAIN kept |->
                             featureRowOf(columnMapping, r.dataset.data[kept[j]],
                                          r.features, 1)],
                    !.y = [j \in DOMAIN kept |->
                             targetOf(r.dataset.data[kept[j]], r.targetColumn,
                                      r.actualTargetColumn)]]

\* lines 246-264: means, standard deviations and the normalized matrix
Normalize(r) ==
  LET means == [i \in DOMAIN r.features |-> meanOf(r.X, i)]
      stds == [i \in DOMAIN r.features |-> stdOf(r.X, i, means[i])]
  IN IF r.threw # "" THEN r
     ELSE [r EXCEPT !.steps = @ \o <<"normalize">>,
                    !.means = means, !.stds = stds,
                    !.XNormalized = [j \in DOMAIN r.X |-> normalizeRow(r.X[j], means, stds)]]

\* lines 266-271: the 80/20 split
Split(r) ==
  LET splitIndex == splitIndexOf(Len(r.X))
  IN IF r.threw # "" THEN r
     ELSE [r EXCEPT !.steps = @ \o <<"split">>,
                    !.splitIndex = splitIndex,
                    !.XTrain = sliceTo(r.XNormalized, splitIndex),
                    !.yTrain = sliceTo(r.y, splitIndex),
                    !.XTest = sliceFrom(r.XNormalized, splitIndex),
                    !.yTest = sliceFrom(r.y, splitIndex)]

\* lines 273-275: new LogisticRegression(0.01, 1000) and model.train
Fit(r) ==
  LET trained == train(r.XTrain, r.yTrain)
  IN IF r.threw # "" THEN r
     ELSE [r EXCEPT !.threw = trained.threw,
                    !.steps = @ \o <<"train">>,
                    !.weights = trained.weights, !.bias = trained.bias]

\* lines 277-279: the metrics on the holdout rows
Evaluation(r) ==
  LET predictions ==
        [j \in DOMAIN r.XTest |->
           predict([weights |-> r.weights, bias |-> r.bias], r.XTest[j])]
  IN IF r.threw # "" THEN r
     ELSE [r EXCEPT !.steps = @ \o <<"metrics">>,
                    !.predictions = predictions,
                    !.metrics = calculateMetrics(r.yTest, predictions)]

trainDiabetesModel(dataset) ==
  Evaluation(Fit(Split(Normalize(Extract(Configure(BlankRun(dataset)))))))

\* mutant of modelPredict: no check of the input length
modelPredictUnchecked(m, lr, input) ==
  LET normalizedInput == normalizeRow(input, m.means, m.stds)
  IN [threw |-> "", normalizedInput |-> normalizedInput,
      label |-> predict(lr, normalizedInput)]

\* mutant of modelPredict: the mean and the standard deviation recomputed from
\* the input of the call
modelPredictRecomputed(m, lr, input) ==
  IF Len(input) # Len(m.features)
    THEN [threw |-> "Expected features", normalizedInput |-> <<>>, label |-> NaN]
    ELSE LET means == [i \in DOMAIN input |-> meanOf(<<input>>, i)]
             stds == [i \in DOMAIN input |-> stdOf(<<input>>, i, means[i])]
             normalizedInput == normalizeRow(input, means, stds)
         IN [threw |-> "", normalizedInput |-> normalizedInput,
             label |-> predict(lr, normalizedInput)]

\* the predict member of the returned Model, m being the closure's features,
\* means and stds and lr its LogisticRegression: the label, or the error thrown
modelPredict(m, lr, input) ==
  IF Len(input) # Len(m.features)
    THEN [threw |-> "Expected features", normalizedInput |-> <<>>, label |-> NaN]
    ELSE LET normalizedInput == normalizeRow(input, m.means, m.stds)
         IN [threw |-> "", normalizedInput |-> normalizedInput,
             label |-> predict(lr, normalizedInput)]

\* the members of the object trainDiabetesModel returns (lines 282-295)
modelMembers == {"predict", "features", "targetColumn", "metrics"}

\* model.predictProbability(input) on the returned object: the object has no
\* such member, and calling undefined is a TypeError
modelPredictProbability(m, lr, input) == [threw |-> "TypeError", probability |-> NaN]

\* ------------------------------------------------------------------------
\* The datasets handed to trainDiabetesModel
\* ------------------------------------------------------------------------
\* A column list names, for each column, its raw name and which of the three
\* cells of a pool row (a, b: predictor cells, t: label cell) its rows hold.
ColumnsBasic ==
  <<[name |-> <<"G", "l", "u", "c", "o", "s", "e">>, slot |-> "a"],
    [name |-> <<"B", "M", "I">>, slot |-> "b"],
    [name |-> <<"O", "u", "t", "c", "o", "m", "e">>, slot |-> "t"]>>

ColumnsComprehensive012 ==
  <<[name |-> <<"H", "i", "g", "h", "B", "P">>, slot |-> "a"],
    [name |-> <<"H", "i", "g", "h", "C", "h", "o", "l">>, slot |-> "b"],
    [name |-> <<"C", "h", "o", "l", "C", "h", "e", "c", "k">>, slot |-> "a"],
    [name |-> <<"B", "M", "I">>, slot |-> "b"],
    [name |-> <<"S", "m", "o", "k", "e", "r">>, slot |-> "a"],
    [name |-> <<"D", "i", "a", "b", "e", "t", "e", "s", "_", "0", "1", "2">>, slot |-> "t"]>>

ColumnsBasicSpaced ==
  <<[name |-> <<" ", "G", "l", "u", "c", "o", "s", "e", " ">>, slot |-> "a"],
    [name |-> <<"B", "l", "o", "o", "d", " ", "P", "r", "e", "s", "s", "u", "r", "e">>, slot |-> "b"],
    [name |-> <<"b", "m", "i">>, slot |-> "a"],
    [name |-> <<"A", "g", "e">>, slot |-> "b"],
    [name |-> <<"O", "u", "t", "c", "o", "m", "e">>, slot |-> "t"]>>

ColumnsBasicReordered ==
  <<[name |-> <<"o", "u", "t", "c", "o", "m", "e">>, slot |-> "t"],
    [name |-> <<"a", "g", "e">>, slot |-> "a"],
    [name |-> <<"b", "m", "i">>, slot |-> "b"],
    [name |-> <<"A", "G", "E">>, slot |-> "b"],
    [name |-> <<"g", "l", "u", "c", "o", "s", "e">>, slot |-> "a"]>>

ColumnsBasicNoOutcome ==
  <<[name |-> <<"g", "l", "u", "c", "o", "s", "e">>, slot |-> "a"],
    [name |-> <<"b", "m", "i">>, slot |-> "b"],
    [name |-> <<"a", "g", "e">>, slot |-> "t"]>>

ColumnsComprehensiveBoth ==
  <<[name |-> <<"H", "i", "g", "h", "B", "P">>, slot |-> "a"],
    [name |-> <<"H", "i", "g", "h", "C", "h", "o", "l">>, slot |-> "b"],
    [name |-> <<"C", "h", "o", "l", "C", "h", "e", "c", "k">>, slot |-> "a"],
    [name |-> <<"B", "M", "I">>, slot |-> "b"],
    [name |-> <<"S", "m", "o", "k", "e", "r">>, slot |-> "a"],
    [name |-> <<"D", "i", "a", "b", "e", "t", "e", "s", "_", "0", "1", "2">>, slot |-> "a"],
    [name |-> <<"D", "i", "a", "b", "e", "t", "e", "s", "_", "b", "i", "n", "a", "r", "y">>, slot |-> "t"]>>

ColumnsComprehensiveNoTarget ==
  <<[name |-> <<"H", "i", "g", "h", "B", "P">>, slot |-> "a"],
    [name |-> <<"H", "i", "g", "h", "C", "h", "o", "l">>, slot |-> "b"],
    [name |-> <<"C", "h", "o", "l", "C", "h", "e", "c", "k">>, slot |-> "a"],
    [name |-> <<"B", "M", "I">>, slot |-> "b"],
    [name |-> <<"S", "m", "o", "k", "e", "r">>, slot |-> "a"],
    [name |-> <<"A", "g", "e">>, slot |-> "t"]>>

ColumnsComprehensiveHash ==
  <<[name |-> <<"H", "i", "g", "h", "B", "P">>, slot |-> "a"],
    [name |-> <<"H", "i", "g", "h", "C", "h", "o", "l">>, slot |-> "b"],
    [name |-> <<"C", "h", "o", "l", "C", "h", "e", "c", "k">>, slot |-> "a"],
    [name |-> <<"B", "M", "I">>, slot |-> "b"],
    [name |-> <<"S", "m", "o", "k", "e", "r">>, slot |-> "a"],
    [name |-> <<"#">>, slot |-> "t"]>>

ColumnsComprehensiveBlank ==
  <<[name |-> <<"H", "i", "g", "h", "B", "P">>, slot |-> "a"],
    [name |-> <<"H", "i", "g", "h", "C", "h", "o", "l">>, slot |-> "b"],
    [name |-> <<"C", "h", "o", "l", "C", "h", "e", "c", "k">>, slot |-> "a"],
    [name |-> <<"B", "M", "I">>, slot |-> "b"],
    [name |-> <<"S", "m", "o", "k", "e", "r">>, slot |-> "a"],
    [name |-> <<>>, slot |-> "t"]>>

ColumnsOneBasicFeature ==
  <<[name |-> <<"g", "l", "u", "c", "o", "s", "e">>, slot |-> "a"],
    [name |-> <<"a", "g", "e">>, slot |-> "b"],
    [name |-> <<"o", "u", "t", "c", "o", "m", "e">>, slot |-> "t"]>>

ColumnsFourMarkers ==
  <<[name |-> <<"H", "i", "g", "h", "B", "P">>, slot |-> "a"],
    [name |-> <<"H", "i", "g", "h", "C", "h", "o", "l">>, slot |-> "b"],
    [name |-> <<"C", "h", "o", "l", "C", "h", "e", "c", "k">>, slot |-> "a"],
    [name |-> <<"S", "m", "o", "k", "e", "r">>, slot |-> "b"],
    [name |-> <<"g", "l", "u", "c", "o", "s", "e">>, slot |-> "a"],
    [name |-> <<"o", "u", "t", "c", "o", "m", "e">>, slot |-> "t"]>>

ColumnsNone == <<>>

\* column lists whose datasets take every row list up to MaxRows rows
RowStudyColumns == {ColumnsBasic, ColumnsComprehensive012}

\* column lists whose datasets take the row lists of ColumnStudyRows only
ColumnStudyColumns ==
  {ColumnsBasicSpaced, ColumnsBasicReordered, ColumnsBasicNoOutcome,
   ColumnsComprehensiveBoth, ColumnsComprehensiveNoTarget, ColumnsComprehensiveHash,
   ColumnsComprehensiveBlank, ColumnsOneBasicFeature, ColumnsFourMarkers, ColumnsNone}

\* the rows a dataset is made of: numbers as csvParser's dynamic typing leaves
\* them, null for an empty CSV field, text, and a key the row lacks
RowPlain == [a |-> CellNumber(Num(1)), b |-> CellNumber(Num(0)), t |-> CellNumber(Num(0))]
RowHigh == [a |-> CellNumber(Num(3)), b |-> CellNumber(Num(2)), t |-> CellNumber(Num(1))]
RowTwo == [a |-> CellNumber(Num(2)), b |-> CellNumber(Num(2)), t |-> CellNumber(Num(2))]
RowNull == [a |-> CellNull, b |-> CellString(<<>>), t |-> CellNull]
RowText == [a |-> CellString(<<"a", "b", "c">>), b |-> CellUndefined, t |-> CellNumber(Num(1))]
RowInfinity == [a |-> CellString(<<"I", "n", "f", "i", "n", "i", "t", "y">>),
                b |-> CellString(<<" ", "1", " ">>),
                t |-> CellString(<<"n", "/", "a">>)]

RowLow == [a |-> CellNumber(Num(0)), b |-> CellNumber(Num(1)), t |-> CellNumber(Num(0))]

RowPool == {RowPlain, RowHigh, RowTwo, RowNull, RowText, RowInfinity}

\* the rows a revised dataset may hold in place of its last row
RevisionRows == {RowPlain, RowLow}

ColumnStudyRows == {<<>>, <<RowPlain, RowHigh, RowTwo>>}

\* all sequences over S of length at most n
RECURSIVE SeqsUpTo(_, _)
SeqsUpTo(S, n) ==
  IF n = 0 THEN {<<>>}
  ELSE LET shorter == SeqsUpTo(S, n - 1)
       IN shorter \cup {Append(q, x) : q \in {p \in shorter : Len(p) = n - 1}, x \in S}

\* the DatasetRow of a pool row under a column list: a key for every column
\* whose cell is not undefined
DatasetRowOf(columnList, poolRow) ==
  LET present == {i \in DOMAIN columnList : poolRow[columnList[i].slot] # CellUndefined}
  IN [c \in {columnList[i].name : i \in present} |->
        poolRow[columnList[CHOOSE i \in present :
                              /\ columnList[i].name = c
                              /\ \A j \in present : columnList[j].name = c => j <= i].slot]]

DatasetOf(columnList, rows) ==
  [columns |-> [i \in DOMAIN columnList |-> columnList[i].name],
   data |-> [i \in DOMAIN rows |-> DatasetRowOf(columnList, rows[i])],
   columnList |-> columnList, rows |-> rows]

Datasets ==
  {DatasetOf(c, rows) : c \in RowStudyColumns, rows \in SeqsUpTo(RowPool, MaxRows)}
  \cup {DatasetOf(c, rows) : c \in ColumnStudyColumns, rows \in ColumnStudyRows}

\* the datasets that differ from dataset in their last row only
Revisions(dataset) ==
  IF dataset.rows = <<>> THEN {}
  ELSE {DatasetOf(dataset.columnList,
                  [dataset.rows EXCEPT ![Len(dataset.rows)] = row]) :
          row \in RevisionRows \ {dataset.rows[Len(dataset.rows)]}}

\* the feature vectors handed to a Model's predict: one entry too few, the
\* right number, one too many, and the raw rows the Model was trained on
PredictValues == {0, 2}
PredictInputs(m) ==
  {[i \in 1..len |-> Num(v)] :
     len \in {l \in {Len(m.features) - 1, Len(m.features), Len(m.features) + 1} : l >= 0},
     v \in PredictValues}
  \cup Range(m.X)

\* ------------------------------------------------------------------------
\* State
\* ------------------------------------------------------------------------
VARIABLES
  dataset,     \* the dataset the caller holds (TrainModel's dataset prop)
  model,       \* the Model returned by the latest successful call, or NoModel
  earlier,     \* the Model returned by the successful call before that, or NoModel
  lastCall,    \* the most recent call of trainDiabetesModel or of predict, and its outcome
  yTrue,       \* calculateMetrics called on its own: the labels,
  yPred,       \*   the predictions,
  metricsOut,  \*   and the result (NoMetrics before the call)
  heap,        \* the LogisticRegression objects: heap[o] = [weights, bias]
  frame,       \* the activation of LogisticRegression.train in progress, or NoFrame
  log,         \* per object of heap: its state, the X and y of its latest train
               \*   call, the number of update steps that call has made and
               \*   whether the object had been trained before that call
  formData,    \* the input handed to predictDiabetes (Predictions' formData)
  prediction,  \* what predictDiabetes returned (NoPrediction before the call)
  error,       \* TrainModel's error state ("" for null)
  localStorage,   \* the two items of the browser's localStorage, parsed
  authState,      \* App's authState
  activeTab,      \* App's activeTab
  clock,          \* Date.now()
  isCalculating,  \* Predictions' isCalculating
  timers          \* the callbacks handed to setTimeout that have not run yet

vars == <<dataset, model, earlier, lastCall, yTrue, yPred, metricsOut,
          heap, frame, log, formData, prediction,
          error, localStorage, authState, activeTab, clock, isCalculating, timers>>

pipelineVars == <<dataset, model, earlier>>
metricsVars == <<yTrue, yPred, metricsOut>>
trainerVars == <<frame, log>>
scorerVars == <<formData, prediction>>
appVars == <<localStorage, authState, activeTab, clock>>
formVars == <<isCalculating, timers>>

NoModel == [threw |-> "none"]
NoCall == [op |-> "none"]
NoFrame == [self |-> 0]
NoFormData == [none |-> TRUE]
NoPrediction == [none |-> TRUE]
NoDataset == [none |-> TRUE]
NoUser == [none |-> TRUE]

USERS_KEY == "diabetes_app_users"
CURRENT_USER_KEY == "diabetes_app_current_user"

\* the application before anybody has used it: nothing stored, the state of
\* App and of its components as their useState calls initialize it
AppAtRest ==
  /\ error = ""
  /\ localStorage = [diabetes_app_users |-> <<>>, diabetes_app_current_user |-> NoUser]
  /\ authState = [user |-> NoUser, isAuthenticated |-> FALSE]
  /\ activeTab = "explore"
  /\ clock = 1
  /\ isCalculating = FALSE
  /\ timers = <<>>

\* new LogisticRegression(...): the object is a fresh one
newLogisticRegressionShared(objects) == 1
newLogisticRegression(objects) == Len(objects) + 1

\* the heap after object o has been given the field values fields
store(objects, o, fields) ==
  IF o \in DOMAIN objects THEN [objects EXCEPT ![o] = fields] ELSE Append(objects, fields)

\* ------------------------------------------------------------------------
\* Spec: the TrainModel component training on the dataset it is given, and
\* the consumer of the Model calling predict
\* ------------------------------------------------------------------------
Init ==
  /\ dataset \in Datasets
  /\ model = NoModel
  /\ earlier = NoModel
  /\ lastCall = NoCall
  /\ yTrue = <<>>
  /\ yPred = <<>>
  /\ metricsOut = NoMetrics
  /\ heap = <<>>
  /\ frame = NoFrame
  /\ log = <<>>
  /\ formData = NoFormData
  /\ prediction = NoPrediction
  /\ AppAtRest

\* a call trainDiabetesModel(dataset) by a caller that keeps the returned Model
\* next to the one it held before; the Model's closure refers to the
\* LogisticRegression the call constructed (a call that throws leaves none
\* that anything refers to)
CallTrainDiabetesModel ==
  \E r \in {trainDiabetesModel(dataset)}, o \in {newLogisticRegression(heap)} :
     /\ lastCall' = [op |-> "train", run |-> r]
     /\ IF r.threw = ""
          THEN /\ model' = [r EXCEPT !.trainer = o]
               /\ earlier' = model
               /\ heap' = store(heap, o, [weights |-> r.weights, bias |-> r.bias])
          ELSE UNCHANGED <<model, earlier, heap>>
     /\ UNCHANGED <<dataset, metricsVars, trainerVars, scorerVars, appVars, formVars>>

\* TrainModel.handleTrainModel, behind the Start Training button, which is
\* rendered only while the component has a dataset and holds no trained model;
\* the handler runs to its end without a pause, so isTraining is false
\* whenever the component is rendered
StartTrainingRendered == dataset # NoDataset /\ model = NoModel

Train ==
  /\ StartTrainingRendered
  /\ CallTrainDiabetesModel
  /\ error' = lastCall'.run.threw

\* model.predict(input) on the latest Model
PredictLatest ==
  /\ model # NoModel
  /\ \E input \in PredictInputs(model) :
       lastCall' = [op |-> "predict", on |-> "model", input |-> input,
                    result |-> modelPredict(model, heap[model.trainer], input)]
  /\ UNCHANGED <<pipelineVars, metricsVars, heap, trainerVars, scorerVars, error, appVars, formVars>>

\* model.predictProbability(input) on the latest Model, by a consumer that
\* relies on the documented interface
PredictProbabilityLatest ==
  /\ model # NoModel
  /\ \E input \in PredictInputs(model) :
       lastCall' = [op |-> "predictProbability", on |-> "model", input |-> input,
                    result |-> modelPredictProbability(model, heap[model.trainer], input)]
  /\ UNCHANGED <<pipelineVars, metricsVars, heap, trainerVars, scorerVars, error, appVars, formVars>>

Next == Train \/ PredictLatest \/ PredictProbabilityLatest

Spec == Init /\ [][Next]_vars

\* ------------------------------------------------------------------------
\* SpecPair: a caller that calls trainDiabetesModel on a dataset and on a
\* revision of it, and keeps both Models
\* ------------------------------------------------------------------------
PairRows == {RowPlain, RowHigh, RowLow}

PairDatasets == {DatasetOf(ColumnsBasic, rows) : rows \in SeqsUpTo(PairRows, MaxRows)}

InitPair ==
  /\ dataset \in PairDatasets
  /\ model = NoModel
  /\ earlier = NoModel
  /\ lastCall = NoCall
  /\ yTrue = <<>>
  /\ yPred = <<>>
  /\ metricsOut = NoMetrics
  /\ heap = <<>>
  /\ frame = NoFrame
  /\ log = <<>>
  /\ formData = NoFormData
  /\ prediction = NoPrediction
  /\ AppAtRest

\* trainDiabetesModel called directly, while the caller holds at most one Model
TrainDirect ==
  /\ earlier = NoModel
  /\ CallTrainDiabetesModel
  /\ UNCHANGED error

\* model.predict(input) on the Model returned before the latest one
PredictEarlier ==
  /\ earlier # NoModel
  /\ \E input \in PredictInputs(earlier) :
       lastCall' = [op |-> "predict", on |-> "earlier", input |-> input,
                    result |-> modelPredict(earlier, heap[earlier.trainer], input)]
  /\ UNCHANGED <<pipelineVars, metricsVars, heap, trainerVars, scorerVars, error, appVars, formVars>>

\* the collaborator supplies a revised dataset after a training run
SupplyDataset ==
  /\ model # NoModel
  /\ earlier = NoModel
  /\ dataset = model.dataset
  /\ dataset' \in Revisions(dataset)
  /\ lastCall' = NoCall
  /\ UNCHANGED <<model, earlier, metricsVars, heap, trainerVars, scorerVars, error, appVars, formVars>>

NextPair == TrainDirect \/ PredictLatest \/ PredictEarlier \/ SupplyDataset

SpecPair == InitPair /\ [][NextPair]_vars

\* ------------------------------------------------------------------------
\* SpecComponent: the TrainModel component under a parent that hands it one
\* dataset after another, or none
\* ------------------------------------------------------------------------
InitComponent ==
  /\ (dataset \in PairDatasets \/ dataset = NoDataset)
  /\ model = NoModel
  /\ earlier = NoModel
  /\ lastCall = NoCall
  /\ yTrue = <<>>
  /\ yPred = <<>>
  /\ metricsOut = NoMetrics
  /\ heap = <<>>
  /\ frame = NoFrame
  /\ log = <<>>
  /\ formData = NoFormData
  /\ prediction = NoPrediction
  /\ AppAtRest

\* the parent renders TrainModel with another dataset prop: the component is
\* rendered again with the state its useState calls hold
ReceiveDataset ==
  /\ \/ \E d \in PairDatasets : d # dataset /\ dataset' = d
     \/ dataset # NoDataset /\ dataset' = NoDataset
  /\ lastCall' = NoCall
  /\ UNCHANGED <<model, earlier, metricsVars, heap, trainerVars, scorerVars, error,
                 appVars, formVars>>

NextComponent == Train \/ ReceiveDataset

SpecComponent == InitComponent /\ [][NextComponent]_vars

\* ------------------------------------------------------------------------
\* SpecUpload: the upload form validating parsed files and handing the valid
\* ones to TrainModel
\* ------------------------------------------------------------------------
Col(name, slot) == [name |-> name, slot |-> slot]

\* the first five comprehensive marker columns
MarkerColumns ==
  <<Col(comprehensiveFeatures[1], "a"), Col(comprehensiveFeatures[2], "b"),
    Col(comprehensiveFeatures[3], "a"), Col(comprehensiveFeatures[4], "b"),
    Col(comprehensiveFeatures[5], "a")>>

\* column lists as parseCSV's transformHeader leaves them
UploadColumns ==
  {<<Col(n_glucose, "a"), Col(n_bmi, "b"), Col(n_age, "a"), Col(n_outcome, "t")>>,
   <<Col(n_glucose, "a"), Col(n_bmi, "b"), Col(n_age, "a"), Col(n_diabetesbinary, "t")>>,
   <<Col(n_glucose, "a"), Col(n_bmi, "b"), Col(n_outcome, "t")>>,
   <<Col(n_glucose, "a"), Col(n_age, "b"), Col(n_outcome, "t")>>,
   <<Col(n_glucose, "a"), Col(n_bmi, "b"), Col(n_age, "t")>>,
   <<Col(n_age, "a"), Col(n_outcome, "t")>>,
   MarkerColumns \o <<Col(n_age, "b"), Col(n_outcome, "t")>>,
   MarkerColumns \o <<Col(n_age, "b"), Col(n_diabetes012, "t")>>,
   MarkerColumns \o <<Col(n_age, "b"), Col(n_diabetesbinary, "t")>>,
   MarkerColumns \o <<Col(n_diabetesbinary, "t")>>}

\* row lists: at and below the validator's five rows, with and without
\* missing values
UploadRows ==
  {<<RowPlain, RowHigh, RowLow, RowHigh, RowPlain>>,
   <<RowPlain, RowHigh, RowNull, RowLow, RowHigh>>,
   <<RowNull, RowNull, RowNull, RowPlain, RowNull>>,
   <<RowPlain, RowHigh, RowLow, RowHigh>>}

UploadDatasets == {DatasetOf(c, rows) : c \in UploadColumns, rows \in UploadRows}

InitUpload ==
  /\ dataset = NoDataset
  /\ model = NoModel
  /\ earlier = NoModel
  /\ lastCall = NoCall
  /\ yTrue = <<>>
  /\ yPred = <<>>
  /\ metricsOut = NoMetrics
  /\ heap = <<>>
  /\ frame = NoFrame
  /\ log = <<>>
  /\ formData = NoFormData
  /\ prediction = NoPrediction
  /\ AppAtRest

\* the upload form's handleFileUpload from the parsed dataset on: the dataset
\* is validated and, when there is no error, handed on by onDatasetUploaded
Upload ==
  /\ \E d \in UploadDatasets :
       \E validationErrors \in {validateDiabetesDataset(d)} :
         /\ lastCall' = [op |-> "validate", dataset |-> d,
                          validationErrors |-> validationErrors]
         /\ dataset' = IF Len(validationErrors) > 0 THEN dataset ELSE d
  /\ UNCHANGED <<model, earlier, metricsVars, heap, trainerVars, scorerVars, error,
                 appVars, formVars>>

NextUpload == Upload \/ Train

SpecUpload == InitUpload /\ [][NextUpload]_vars

\* ------------------------------------------------------------------------
\* SpecMetrics: calculateMetrics on its own
\* ------------------------------------------------------------------------
Labels == {Num(0), Num(1)}

InitMetrics ==
  /\ dataset = DatasetOf(ColumnsNone, <<>>)
  /\ model = NoModel
  /\ earlier = NoModel
  /\ lastCall = NoCall
  /\ \E n \in 0..MaxLen : yTrue \in [1..n -> Labels] /\ yPred \in [1..n -> Labels]
  /\ metricsOut = NoMetrics
  /\ heap = <<>>
  /\ frame = NoFrame
  /\ log = <<>>
  /\ formData = NoFormData
  /\ prediction = NoPrediction
  /\ AppAtRest

Evaluate ==
  /\ metricsOut' = calculateMetrics(yTrue, yPred)
  /\ lastCall' = [op |-> "calculateMetrics"]
  /\ UNCHANGED <<pipelineVars, yTrue, yPred, heap, trainerVars, scorerVars, error, appVars, formVars>>

NextMetrics == Evaluate

SpecMetrics == InitMetrics /\ [][NextMetrics]_vars

\* ------------------------------------------------------------------------
\* SpecTrainer: two LogisticRegression objects, trained and queried directly.
\* train runs to completion once entered (the program has one thread), one
\* pass of its loop per step.
\* ------------------------------------------------------------------------
\* the (X, y) handed to train: matrices whose rows have one length, matrices
\* with a row shorter or longer than the first, and the empty matrix
Ones(v) == [i \in DOMAIN v |-> Num(v[i])]
Matrix(rows) == [j \in DOMAIN rows |-> Ones(rows[j])]
TrainingSets ==
  {[X |-> Matrix(<<<<0>>, <<0>>>>), y |-> Ones(<<0, 1>>)],
   [X |-> Matrix(<<<<1>>, <<-1>>>>), y |-> Ones(<<1, 0>>)],
   [X |-> Matrix(<<<<2>>>>), y |-> Ones(<<1>>)],
   [X |-> Matrix(<<<<1, 0>>, <<0, 1>>>>), y |-> Ones(<<1, 0>>)],
   [X |-> Matrix(<<<<1, 0>>, <<1>>>>), y |-> Ones(<<1, 0>>)],
   [X |-> Matrix(<<<<1>>, <<1, 2>>>>), y |-> Ones(<<0, 1>>)],
   [X |-> <<>>, y |-> <<>>]}

\* the feature vectors handed to predict and predictProbability
Vectors == {Ones(<<0>>), Ones(<<1>>), Ones(<<-1>>), Ones(<<0, 0>>), Ones(<<1, -2>>)}

Objects == {1, 2}

\* the fields of a LogisticRegression after its constructor
constructed == [weights |-> <<>>, bias |-> Num(0)]

InitTrainer ==
  /\ dataset = DatasetOf(ColumnsNone, <<>>)
  /\ model = NoModel
  /\ earlier = NoModel
  /\ lastCall = NoCall
  /\ yTrue = <<>>
  /\ yPred = <<>>
  /\ metricsOut = NoMetrics
  /\ heap = [o \in Objects |-> constructed]
  /\ frame = NoFrame
  /\ log = [o \in Objects |-> [state |-> "Uninitialized", X |-> <<>>, y |-> <<>>,
                                updates |-> 0, again |-> FALSE]]
  /\ formData = NoFormData
  /\ prediction = NoPrediction
  /\ AppAtRest

\* mutant of initialized: the weights and the bias of an earlier train call kept
initializedWarm(lr, n) ==
  IF Len(lr.weights) = n THEN lr
  ELSE [weights |-> [k \in 1..n |-> Num(0)], bias |-> Num(0)]

\* lines 112-113: this.weights = new Array(n).fill(0); this.bias = 0
initialized(lr, n) == [weights |-> [k \in 1..n |-> Num(0)], bias |-> Num(0)]

\* lines 109-113: train entered; X[0].length of an empty X is a TypeError,
\* thrown before any field is assigned
TrainEnter ==
  /\ frame = NoFrame
  /\ \E o \in Objects, t \in TrainingSets :
       IF Len(t.X) = 0
         THEN /\ lastCall' = [op |-> "train", self |-> o, X |-> t.X, y |-> t.y,
                               threw |-> "TypeError"]
              /\ UNCHANGED <<heap, frame, log>>
         ELSE /\ heap' = [heap EXCEPT ![o] = initialized(heap[o], Len(t.X[1]))]
              /\ frame' = [self |-> o, X |-> t.X, y |-> t.y, i |-> 0, before |-> heap[o]]
              /\ log' = [log EXCEPT ![o] = [state |-> "Training", X |-> t.X, y |-> t.y,
                                             updates |-> 0,
                                             again |-> log[o].state = "Trained"]]
              /\ lastCall' = [op |-> "train", self |-> o, X |-> t.X, y |-> t.y,
                               threw |-> "running"]
  /\ UNCHANGED <<pipelineVars, metricsVars, scorerVars, error, appVars, formVars>>

\* mutant of loopContinues: the loop left as soon as the weights stop moving
loopContinuesUntilConverged(i, before, after) == i < iterations /\ (i = 0 \/ before # after)

\* line 116: i < this.iterations, whatever the weights before and after the
\* previous pass
loopContinues(i, before, after) == i < iterations

\* lines 116-140: one pass of the loop
TrainIterate ==
  /\ frame # NoFrame
  /\ loopContinues(frame.i, frame.before, heap[frame.self])
  /\ \E w \in {heap[frame.self]} :
       heap' = [heap EXCEPT ![frame.self] = TrainStep(frame.X, frame.y, w)]
  /\ frame' = [frame EXCEPT !.i = @ + 1, !.before = heap[frame.self]]
  /\ log' = [log EXCEPT ![frame.self].updates = @ + 1]
  /\ UNCHANGED <<pipelineVars, metricsVars, scorerVars, lastCall, error, appVars, formVars>>

\* line 141: the loop is over and train returns
TrainReturn ==
  /\ frame # NoFrame
  /\ ~loopContinues(frame.i, frame.before, heap[frame.self])
  /\ frame' = NoFrame
  /\ log' = [log EXCEPT ![frame.self].state = "Trained"]
  /\ lastCall' = [lastCall EXCEPT !.threw = ""]
  /\ UNCHANGED <<pipelineVars, metricsVars, scorerVars, heap, error, appVars, formVars>>

\* lr.predict(x)
PredictCall ==
  /\ frame = NoFrame
  /\ \E o \in Objects, x \in Vectors :
       lastCall' = [op |-> "predict", self |-> o, input |-> x,
                    result |-> predict(heap[o], x)]
  /\ UNCHANGED <<pipelineVars, metricsVars, scorerVars, heap, trainerVars,
                 error, appVars, formVars>>

\* lr.predictProbability(x)
PredictProbabilityCall ==
  /\ frame = NoFrame
  /\ \E o \in Objects, x \in Vectors :
       lastCall' = [op |-> "predictProbability", self |-> o, input |-> x,
                    result |-> predictProbability(heap[o], x)]
  /\ UNCHANGED <<pipelineVars, metricsVars, scorerVars, heap, trainerVars,
                 error, appVars, formVars>>

NextTrainer ==
  TrainEnter \/ TrainIterate \/ TrainReturn \/ PredictCall \/ PredictProbabilityCall

SpecTrainer == InitTrainer /\ [][NextTrainer]_vars

\* SpecTrainer with a scheduler that lets a train call in progress go on
SpecTrainerFair ==
  SpecTrainer /\ WF_vars(TrainIterate) /\ WF_vars(TrainReturn)

\* ------------------------------------------------------------------------
\* The static scorer (utils/pretrainedModel): predictDiabetes
\* Its numbers are held in units of 1/ScorerScale.
\* ------------------------------------------------------------------------
ScorerScale == 10 * 100

\* a decimal number given in thousandths
Milli(v) == Fin(v)
Times(x, y) == MulAt(ScorerScale, x, y)
Over(x, y) == DivAt(ScorerScale, x, y)

\* Math.abs
MathAbs(x) ==
  IF x.k = "nan" THEN NaN ELSE IF x.k = "inf" THEN PInf ELSE Fin(Abs(x.v))

\* mutant of modelWeights: the bias with the opposite sign
modelWeightsPositiveBias ==
  [pregnancies |-> Milli(420), glucose |-> Milli(1240), bloodpressure |-> Milli(180),
   skinthickness |-> Milli(80), insulin |-> Milli(350), bmi |-> Milli(890),
   diabetespedigreefunction |-> Milli(670), age |-> Milli(520), bias |-> Milli(4100)]

modelWeights ==
  [pregnancies |-> Milli(420), glucose |-> Milli(1240), bloodpressure |-> Milli(180),
   skinthickness |-> Milli(80), insulin |-> Milli(350), bmi |-> Milli(890),
   diabetespedigreefunction |-> Milli(670), age |-> Milli(520), bias |-> Milli(-4100)]

normalizationParams ==
  [pregnancies |-> [mean |-> Milli(3845), std |-> Milli(3369)],
   glucose |-> [mean |-> Milli(120894), std |-> Milli(31972)],
   bloodpressure |-> [mean |-> Milli(69105), std |-> Milli(19355)],
   skinthickness |-> [mean |-> Milli(20536), std |-> Milli(15952)],
   insulin |-> [mean |-> Milli(79799), std |-> Milli(115244)],
   bmi |-> [mean |-> Milli(31992), std |-> Milli(7884)],
   diabetespedigreefunction |-> [mean |-> Milli(472), std |-> Milli(331)],
   age |-> [mean |-> Milli(33241), std |-> Milli(11760)]]

\* the scorer's sigmoid: 1 / (1 + Math.exp(-clampedZ)), z clamped to [-500, 500]
scorerSigmoid(z) ==
  LET clampedZ == MathMax(Milli(-500000), MathMin(Milli(500000), z))
  IN IF clampedZ.k # "fin" THEN Logistic(clampedZ)
     ELSE Fin(Logistic(Fin(clampedZ.v * (Scale \div ScorerScale))).v
                \div (Scale \div ScorerScale))

\* the scorer's normalizeValue
scorerNormalizeValue(value, feature) ==
  LET params == normalizationParams[feature]
  IN IF params.std = Milli(0) THEN Milli(0)
     ELSE Over(Sub(value, params.mean), params.std)

\* mutant of cleanedInputOf: the minima enforced on the values as supplied
cleanedInputOfUnguarded(input) ==
  [pregnancies |-> MathMax(Milli(0), ToNumber(input.pregnancies)),
   glucose |-> MathMax(Milli(0), ToNumber(input.glucose)),
   bloodpressure |-> MathMax(Milli(0), ToNumber(input.bloodpressure)),
   skinthickness |-> MathMax(Milli(0), ToNumber(input.skinthickness)),
   insulin |-> MathMax(Milli(0), ToNumber(input.insulin)),
   bmi |-> MathMax(Milli(10000), ToNumber(input.bmi)),
   diabetespedigreefunction |-> MathMax(Milli(0), ToNumber(input.diabetespedigreefunction)),
   age |-> MathMax(Milli(18000), ToNumber(input.age))]

\* lines 91-100: missing or invalid values replaced, minima enforced
cleanedInputOf(input) ==
  [pregnancies |-> MathMax(Milli(0), OrElse(input.pregnancies, Milli(0))),
   glucose |-> MathMax(Milli(0), OrElse(input.glucose, Milli(100000))),
   bloodpressure |-> MathMax(Milli(0), OrElse(input.bloodpressure, Milli(70000))),
   skinthickness |-> MathMax(Milli(0), OrElse(input.skinthickness, Milli(20000))),
   insulin |-> MathMax(Milli(0), OrElse(input.insulin, Milli(80000))),
   bmi |-> MathMax(Milli(10000), OrElse(input.bmi, Milli(25000))),
   diabetespedigreefunction |->
     MathMax(Milli(0), OrElse(input.diabetespedigreefunction, Milli(500))),
   age |-> MathMax(Milli(18000), OrElse(input.age, Milli(30000)))]

\* engineerFeatures: the three interaction features
engineerFeatures(input) ==
  [glucoseBMI |-> Times(Over(input.glucose, Milli(100000)), Over(input.bmi, Milli(30000))),
   agePregnancies |->
     Times(Over(input.age, Milli(30000)), Over(input.pregnancies, Milli(5000))),
   insulinGlucose |->
     IF Gt(input.insulin, Milli(0))
       THEN Times(Over(input.insulin, Milli(100000)), Over(input.glucose, Milli(100000)))
       ELSE Milli(0)]

\* the sum of the terms of a sequence, left to right
RECURSIVE SumOf(_, _, _)
SumOf(terms, i, sum) ==
  IF i > Len(terms) THEN sum ELSE SumOf(terms, i + 1, Add(sum, terms[i]))

\* lines 116-130: the weighted sum z of a cleaned input under weights w
linearScoreUnder(w, cleaned) ==
  LET e == engineerFeatures(cleaned)
      term(f) == CHOOSE t \in {Times(scorerNormalizeValue(cleaned[f], f), w[f])} : TRUE
  IN SumOf(<<term("glucose"), term("bloodpressure"), term("skinthickness"),
             term("insulin"), term("bmi"), term("diabetespedigreefunction"),
             term("age"),
             Times(e.glucoseBMI, Milli(150)), Times(e.agePregnancies, Milli(80)),
             Times(e.insulinGlucose, Milli(120)), w.bias>>,
           1, term("pregnancies"))

\* mutant of scoreOf: scored with the bias of the opposite sign
scoreOfPositiveBias(input) == linearScoreUnder(modelWeightsPositiveBias, cleanedInputOf(input))

\* lines 91-130: z as predictDiabetes computes it from its input
scoreOf(input) == linearScoreUnder(modelWeights, cleanedInputOf(input))

\* lines 132-147: probability, prediction, risk and confidence from z
resultOf(z) ==
  LET probability == scorerSigmoid(z)
      label == IF Ge(probability, Milli(500)) THEN 1 ELSE 0
      confidence == Times(MathAbs(Sub(probability, Milli(500))), Milli(2000))
  IN [prediction |-> label,
      probability |-> probability,
      risk |-> IF label = 1 THEN "high" ELSE "low",
      confidence |-> MathMin(Milli(950), MathMax(Milli(600), confidence))]

predictDiabetes(input) == CHOOSE result \in {resultOf(z) : z \in {scoreOf(input)}} : TRUE

\* the documented neutral input
NeutralInput ==
  [pregnancies |-> Milli(1000), glucose |-> Milli(120000), bloodpressure |-> Milli(80000),
   skinthickness |-> Milli(20000), insulin |-> Milli(80000), bmi |-> Milli(25000),
   diabetespedigreefunction |-> Milli(500), age |-> Milli(30000)]

\* the inputs whose every field is the neutral input's value or one of others
InputsOver(others) ==
  [pregnancies : {NeutralInput.pregnancies} \cup others,
   glucose : {NeutralInput.glucose} \cup others,
   bloodpressure : {NeutralInput.bloodpressure} \cup others,
   skinthickness : {NeutralInput.skinthickness} \cup others,
   insulin : {NeutralInput.insulin} \cup others,
   bmi : {NeutralInput.bmi} \cup others,
   diabetespedigreefunction : {NeutralInput.diabetespedigreefunction} \cup others,
   age : {NeutralInput.age} \cup others]

\* the inputs handed to predictDiabetes: clinical values, and every
\* combination of present with missing or NaN fields, and of present with
\* zero or negative fields
ScorerInputs ==
  {[pregnancies |-> pregnancies, glucose |-> glucose, bloodpressure |-> Milli(80000),
    skinthickness |-> Milli(20000), insulin |-> insulin, bmi |-> bmi,
    diabetespedigreefunction |-> pedigree, age |-> age] :
     pregnancies \in {Milli(1000), Milli(0), Milli(10000)},
     glucose \in {Milli(120000), Milli(0), Milli(200000), NaN},
     insulin \in {Milli(80000), Milli(-5000), Milli(500000)},
     bmi \in {Milli(25000), Milli(45000), Milli(5000)},
     pedigree \in {Milli(500), Milli(2000)},
     age \in {Milli(30000), Milli(60000), PInf}}
  \cup InputsOver({Undefined, NaN})
  \cup InputsOver({Milli(0), Milli(-5000)})

InitScorer ==
  /\ dataset = DatasetOf(ColumnsNone, <<>>)
  /\ model = NoModel
  /\ earlier = NoModel
  /\ lastCall = NoCall
  /\ yTrue = <<>>
  /\ yPred = <<>>
  /\ metricsOut = NoMetrics
  /\ heap = <<>>
  /\ frame = NoFrame
  /\ log = <<>>
  /\ formData \in ScorerInputs
  /\ prediction = NoPrediction
  /\ AppAtRest

\* Predictions.handlePredict: predictDiabetes(formData)
Score ==
  /\ prediction' = predictDiabetes(formData)
  /\ lastCall' = [op |-> "predictDiabetes"]
  /\ UNCHANGED <<pipelineVars, metricsVars, heap, trainerVars, formData,
                 error, appVars, formVars>>

NextScorer == Score

SpecScorer == InitScorer /\ [][NextScorer]_vars

\* ------------------------------------------------------------------------
\* utils/auth: the user store in localStorage. What JSON.stringify and
\* JSON.parse do to a stored value is the identity on the fields kept here
\* (strings, finite numbers, arrays); the Date fields are left out.
\* ------------------------------------------------------------------------
getStoredUsers(storage) == storage[USERS_KEY]

\* users.findIndex(test): the first index that passes, 0 for JavaScript's -1
findIndex(users, test(_)) ==
  IF \E i \in DOMAIN users : test(users[i])
    THEN CHOOSE i \in DOMAIN users : test(users[i]) /\ \A j \in 1..(i - 1) : ~test(users[j])
    ELSE 0

saveUser(storage, user) ==
  LET users == getStoredUsers(storage)
      existingIndex == findIndex(users, LAMBDA u : u.email = user.email)
  IN [storage EXCEPT
        ![USERS_KEY] = IF existingIndex >= 1 THEN [users EXCEPT ![existingIndex] = user]
                       ELSE Append(users, user)]

getCurrentUser(storage) == storage[CURRENT_USER_KEY]

\* setCurrentUser: the item set, or removed for null
setCurrentUser(storage, user) == [storage EXCEPT ![CURRENT_USER_KEY] = user]

\* signUp: the promise's outcome and the storage it leaves
signUp(storage, email, name, now) ==
  LET users == getStoredUsers(storage)
      newUser == [id |-> now, email |-> email, name |-> name, predictions |-> <<>>]
  IN IF findIndex(users, LAMBDA u : u.email = email) >= 1
       THEN [rejected |-> "User already exists with this email", user |-> NoUser,
             storage |-> storage]
       ELSE [rejected |-> "", user |-> newUser,
             storage |-> setCurrentUser(saveUser(storage, newUser), newUser)]

\* signIn
signIn(storage, email) ==
  LET users == getStoredUsers(storage)
      found == findIndex(users, LAMBDA u : u.email = email)
  IN IF found = 0
       THEN [rejected |-> "User not found", user |-> NoUser, storage |-> storage]
       ELSE [rejected |-> "", user |-> users[found],
             storage |-> setCurrentUser(storage, users[found])]

signOut(storage) == setCurrentUser(storage, NoUser)

\* updateUserPredictions
updateUserPredictions(storage, userId, record) ==
  LET users == getStoredUsers(storage)
      userIndex == findIndex(users, LAMBDA u : u.id = userId)
  IN IF userIndex >= 1
       THEN LET user == [users[userIndex] EXCEPT !.predictions = Append(@, record)]
            IN setCurrentUser(saveUser(storage, user), user)
       ELSE storage

\* ------------------------------------------------------------------------
\* SpecApp: App with its sign-in form, the Predictions form and the Profile
\* form, over localStorage
\* ------------------------------------------------------------------------
Emails == {"ann@example.org", "bea@example.org"}
Names == {"Ann", "Bea"}
Tabs == {"explore", "predict", "profile"}

\* what the user types into a number field of the Predictions form
FormFields == {"glucose"}
TypedValues == {<<" ", "2", "0", "0", "m", "g">>, <<>>}

\* the digits a string starts with
RECURSIVE LeadingDigits(_)
LeadingDigits(str) ==
  IF str # <<>> /\ Head(str) \in DigitCharacters
    THEN <<Head(str)>> \o LeadingDigits(Tail(str))
    ELSE <<>>

\* parseFloat, for the strings of the model (no decimal point, no exponent):
\* leading white space skipped, an optional sign, then the leading digits
parseFloat(str) ==
  LET t == trimStart(str)
      negative == t # <<>> /\ Head(t) = "-"
      digits == LeadingDigits(IF negative THEN Tail(t) ELSE t)
  IN IF digits = <<>> THEN NaN
     ELSE Milli((IF negative THEN -1 ELSE 1) * ScorerScale * DigitsValue(digits, 0))

InitApp ==
  /\ dataset = NoDataset
  /\ model = NoModel
  /\ earlier = NoModel
  /\ lastCall = NoCall
  /\ yTrue = <<>>
  /\ yPred = <<>>
  /\ metricsOut = NoMetrics
  /\ heap = <<>>
  /\ frame = NoFrame
  /\ log = <<>>
  /\ formData = NeutralInput
  /\ prediction = NoPrediction
  /\ error = ""
  /\ localStorage = [diabetes_app_users |-> <<>>, diabetes_app_current_user |-> NoUser]
  /\ authState = [user |-> NoUser, isAuthenticated |-> FALSE]
  /\ activeTab = "explore"
  /\ clock = 1
  /\ isCalculating = FALSE
  /\ timers = <<>>

otherVars == <<pipelineVars, metricsVars, heap, trainerVars, error, lastCall>>

\* the Predictions component is rendered
PredictionsMounted == authState.isAuthenticated /\ activeTab = "predict"

\* the Predictions component goes away, or a new one is rendered: its state
\* is what useState initializes, and the callbacks of the old component
\* that are still to run set the state of a component that is gone
PredictionsRemounted ==
  /\ formData' = NeutralInput
  /\ prediction' = NoPrediction
  /\ isCalculating' = FALSE
  /\ timers' = [t \in DOMAIN timers |-> [timers[t] EXCEPT !.mounted = FALSE]]

\* the sign-in form in sign-up mode: signUp, then onAuthSuccess with the user
SignUp ==
  /\ ~authState.isAuthenticated
  /\ clock < MaxClock
  /\ \E email \in Emails, name \in Names :
       \E r \in {signUp(localStorage, email, name, clock)} :
         /\ localStorage' = r.storage
         /\ authState' = IF r.rejected = "" THEN [user |-> r.user, isAuthenticated |-> TRUE]
                          ELSE authState
  /\ clock' = clock + 1
  /\ UNCHANGED <<otherVars, activeTab, scorerVars, formVars>>

\* the sign-in form in sign-in mode: signIn, then onAuthSuccess with the user
SignIn ==
  /\ ~authState.isAuthenticated
  /\ \E email \in Emails :
       \E r \in {signIn(localStorage, email)} :
         /\ localStorage' = r.storage
         /\ authState' = IF r.rejected = "" THEN [user |-> r.user, isAuthenticated |-> TRUE]
                          ELSE authState
  /\ UNCHANGED <<otherVars, activeTab, clock, scorerVars, formVars>>

\* App.handleSignOut
HandleSignOut ==
  /\ authState.isAuthenticated
  /\ localStorage' = signOut(localStorage)
  /\ authState' = [user |-> NoUser, isAuthenticated |-> FALSE]
  /\ PredictionsRemounted
  /\ UNCHANGED <<otherVars, activeTab, clock>>

\* Sidebar's onTabChange
TabChange ==
  /\ authState.isAuthenticated
  /\ \E tab \in Tabs \ {activeTab} : activeTab' = tab
  /\ PredictionsRemounted
  /\ UNCHANGED <<otherVars, localStorage, authState, clock>>

\* the page is loaded again: App's mount effect reads the current user, and
\* the callbacks that were still to run are gone
Mount ==
  /\ authState' = [user |-> getCurrentUser(localStorage),
                    isAuthenticated |-> getCurrentUser(localStorage) # NoUser]
  /\ activeTab' = "explore"
  /\ formData' = NeutralInput
  /\ prediction' = NoPrediction
  /\ isCalculating' = FALSE
  /\ timers' = <<>>
  /\ UNCHANGED <<otherVars, localStorage, clock>>

\* Profile.handleSave with the name and the email of its edit form, and
\* App.handleUpdateUser
HandleSave ==
  /\ authState.isAuthenticated
  /\ activeTab = "profile"
  /\ \E name \in Names, email \in Emails :
       \E updatedUser \in {[authState.user EXCEPT !.name = name, !.email = email]} :
         /\ localStorage' = saveUser(localStorage, updatedUser)
         /\ authState' = [authState EXCEPT !.user = updatedUser]
  /\ UNCHANGED <<otherVars, activeTab, clock, scorerVars, formVars>>

\* Predictions.handleInputChange
HandleInputChange ==
  /\ PredictionsMounted
  /\ \E field \in FormFields, value \in TypedValues :
       formData' = [formData EXCEPT ![field] = OrElse(parseFloat(value), Milli(0))]
  /\ prediction' = NoPrediction
  /\ UNCHANGED <<otherVars, appVars, formVars>>

\* Predictions.handlePredict, behind the button that is disabled while
\* isCalculating: the callback handed to setTimeout holds the formData and the
\* user of the render the click happened in
HandlePredict ==
  /\ PredictionsMounted
  /\ ~isCalculating
  /\ clock + Len(timers) < MaxClock
  /\ isCalculating' = TRUE
  /\ timers' = Append(timers, [formData |-> formData, user |-> authState.user,
                                mounted |-> TRUE])
  /\ UNCHANGED <<otherVars, appVars, scorerVars>>

\* a second later: the callback of handlePredict (timeouts of one delay run in
\* the order they were set)
TimerFires ==
  /\ timers # <<>>
  /\ LET timer == Head(timers)
     IN \E result \in {predictDiabetes(timer.formData)} :
          /\ IF timer.mounted
               THEN /\ prediction' = (IF timer.user = NoUser THEN NoPrediction ELSE result)
                    /\ isCalculating' = FALSE
               ELSE UNCHANGED <<prediction, isCalculating>>
          /\ localStorage' =
               IF timer.user = NoUser THEN localStorage
               ELSE updateUserPredictions(
                      localStorage, timer.user.id,
                      [id |-> clock, input |-> timer.formData,
                       result |-> result.prediction, risk |-> result.risk])
  /\ timers' = Tail(timers)
  /\ clock' = clock + 1
  /\ UNCHANGED <<otherVars, authState, activeTab, formData>>

NextApp ==
  \/ SignUp \/ SignIn \/ HandleSignOut \/ TabChange \/ Mount \/ HandleSave
  \/ HandleInputChange \/ HandlePredict \/ TimerFires

SpecApp == InitApp /\ [][NextApp]_vars

\* ------------------------------------------------------------------------
\* Properties of calculateMetrics (checked under SpecMetrics)
\* ------------------------------------------------------------------------
\* the number of index positions whose (label, prediction) pair is (t, p)
PairCount(t, p) ==
  Cardinality({i \in DOMAIN yTrue : yTrue[i] = Num(t) /\ yPred[i] = Num(p)})

Evaluated == lastCall = [op |-> "calculateMetrics"]

\* C1: for equal-length arrays over {0,1}, calculateMetrics returns
\* confusionMatrix = [[TN, FP], [FN, TP]], the four counts being the numbers of
\* positions whose (label, prediction) pair is (0,0), (0,1), (1,0), (1,1), and
\* the four counts add up to the array length.
C1_ConfusionMatrix ==
  Evaluated =>
    /\ metricsOut.confusionMatrix =
         <<<<PairCount(0, 0), PairCount(0, 1)>>, <<PairCount(1, 0), PairCount(1, 1)>>>>
    /\ metricsOut.confusionMatrix[1][1] + metricsOut.confusionMatrix[1][2]
         + metricsOut.confusionMatrix[2][1] + metricsOut.confusionMatrix[2][2]
       = Len(yTrue)

\* C1 witness: a call on four positions, one of each kind
C1_Witness ==
  /\ Evaluated
  /\ Len(yTrue) = 4
  /\ metricsOut.confusionMatrix = <<<<1, 1>>, <<1, 1>>>>

\* C2: accuracy = (TP+TN)/(TP+FP+TN+FN), precision = TP/(TP+FP),
\* recall = TP/(TP+FN), F1 = 2*precision*recall/(precision+recall); precision,
\* recall and F1 are exactly 0, and no NaN, when their denominator is 0; labels
\* [1,1,1] with predictions [1,1,1] give 1, 1, 1, 1 and labels [0,0] with
\* predictions [1,1] give 0, 0, 0, 0.
C2_Ratios ==
  Evaluated =>
    LET TP == PairCount(1, 1)
        FP == PairCount(0, 1)
        TN == PairCount(0, 0)
        FN == PairCount(1, 0)
        m == metricsOut
        ones3 == <<Num(1), Num(1), Num(1)>>
    IN /\ m.accuracy = Div(Num(TP + TN), Num(TP + FP + TN + FN))
       /\ m.precision = (IF TP + FP = 0 THEN Num(0) ELSE Div(Num(TP), Num(TP + FP)))
       /\ m.recall = (IF TP + FN = 0 THEN Num(0) ELSE Div(Num(TP), Num(TP + FN)))
       /\ m.f1Score = (IF Add(m.precision, m.recall) = Num(0) THEN Num(0)
                       ELSE Div(Mul(Num(2), Mul(m.precision, m.recall)),
                                Add(m.precision, m.recall)))
       /\ IsFinite(m.precision) /\ IsFinite(m.recall) /\ IsFinite(m.f1Score)
       /\ (yTrue = ones3 /\ yPred = ones3) =>
            /\ m.accuracy = Num(1) /\ m.precision = Num(1)
            /\ m.recall = Num(1) /\ m.f1Score = Num(1)
       /\ (yTrue = <<Num(0), Num(0)>> /\ yPred = <<Num(1), Num(1)>>) =>
            /\ m.accuracy = Num(0) /\ m.precision = Num(0)
            /\ m.recall = Num(0) /\ m.f1Score = Num(0)

\* C2 witness: a call on all-zero labels with all-one predictions, where the
\* recall and F1 denominators are 0
C2_Witness ==
  /\ Evaluated
  /\ yTrue = <<Num(0), Num(0)>>
  /\ yPred = <<Num(1), Num(1)>>
  /\ metricsOut.recall = Num(0)
  /\ metricsOut.f1Score = Num(0)

\* ------------------------------------------------------------------------
\* Properties of trainDiabetesModel (checked under Spec and SpecPair)
\* ------------------------------------------------------------------------
Trained == lastCall.op = "train"
Did(step) == Trained /\ step \in Range(lastCall.run.steps)

\* a cell that holds a finite number: a finite number, or text that reads as one
FiniteNumeric(cell) ==
  \/ cell.t = "number" /\ IsFinite(cell.v)
  \/ cell.t = "string" /\ trim(cell.s) # <<>> /\ IsFinite(StringToNumber(cell.s))

\* the columns a run reads: those of its features and its target column
SelectedColumns(r) ==
  {lookup(columnMappingOf(r.dataset), r.features[i]).name : i \in DOMAIN r.features}
  \cup {r.actualTargetColumn}

\* C3: a row is kept in X/y if and only if every selected feature value and the
\* target value of the row is a finite number (null, empty string, text and
\* infinite values make the row be dropped, for every target column).
C3_KeepsExactlyFiniteRows ==
  Did("rows") =>
    LET r == lastCall.run
    IN \A i \in DOMAIN r.dataset.data :
         (i \in Range(r.kept)) <=>
           (\A c \in SelectedColumns(r) : FiniteNumeric(Get(r.dataset.data[i], c)))

\* C5: the training partition is the first floor(0.8 n) rows, the holdout
\* partition the remaining n - floor(0.8 n) rows, for X and for y, and training
\* rows followed by holdout rows are the rows in their original order.
C5_SplitPartition ==
  Did("split") =>
    LET r == lastCall.run
        n == Len(r.X)
        k == (4 * n) \div 5
    IN /\ Len(r.XTrain) = k /\ Len(r.yTrain) = k
       /\ Len(r.XTest) = n - k /\ Len(r.yTest) = n - k
       /\ \A j \in 1..k : r.XTrain[j] = r.XNormalized[j] /\ r.yTrain[j] = r.y[j]
       /\ \A j \in 1..(n - k) : r.XTest[j] = r.XNormalized[k + j] /\ r.yTest[j] = r.y[k + j]
       /\ r.XTrain \o r.XTest = r.XNormalized
       /\ r.yTrain \o r.yTest = r.y

\* C5 witness: a split of three surviving rows into two and one
C5_Witness ==
  /\ Did("split")
  /\ Len(lastCall.run.X) = 3
  /\ Len(lastCall.run.XTrain) = 2
  /\ Len(lastCall.run.XTest) = 1

\* C6: predict on a returned Model with an input whose length differs from the
\* number of features raises an error and returns no label.
C6_PredictChecksDimension ==
  (lastCall.op = "predict" /\ Len(lastCall.input) # Len(model.features)) =>
    /\ lastCall.result.threw # ""
    /\ lastCall.result.label \notin {Num(0), Num(1)}

\* C6 witness: predict called with one feature too few, which threw
C6_Witness ==
  /\ lastCall.op = "predict"
  /\ Len(lastCall.input) = Len(model.features) - 1
  /\ lastCall.result.threw # ""

\* the target columns trainDiabetesModel accepts for a dataset type
TargetsOf(datasetType) ==
  IF datasetType = "basic" THEN {n_outcome}
  ELSE IF datasetType = "comprehensive" THEN {n_diabetesbinary, n_diabetes012}
  ELSE {}

\* C7: whenever none of the target columns of the dataset's variant is among
\* its normalized column names, trainDiabetesModel fails with the
\* missing-target error and extracts no rows.
C7_MissingTargetFails ==
  (/\ Trained
   /\ lastCall.run.datasetType # "unknown"
   /\ TargetsOf(lastCall.run.datasetType) \cap Range(normalizedColumnsOf(dataset)) = {})
  => /\ lastCall.run.threw = "Target column not found"
     /\ ~Did("rows")

\* C8: every label placed in y is 0 or 1, for every target column.
C8_LabelsBinary ==
  Did("rows") => \A j \in DOMAIN lastCall.run.y : lastCall.run.y[j] \in {Num(0), Num(1)}

\* C9: if no row survives filtering, trainDiabetesModel fails with the no-data
\* error before any normalization, splitting or training, and returns no model.
C9_NoDataFails ==
  (Did("rows") /\ Len(lastCall.run.kept) = 0) =>
    /\ lastCall.run.threw = "No valid data found for training"
    /\ lastCall.run.steps = <<"type", "target", "rows">>
    /\ model = NoModel

\* C9 witness: a recognized dataset with rows, none of which survives
C9_Witness ==
  /\ Did("rows")
  /\ Len(lastCall.run.kept) = 0
  /\ Len(dataset.data) > 0
  /\ lastCall.run.threw = "No valid data found for training"

\* the number of names of list that are among the dataset's normalized columns
Present(list) ==
  Cardinality({i \in DOMAIN list : list[i] \in Range(normalizedColumnsOf(dataset))})

\* C10: a dataset with fewer than 5 of the 10 comprehensive marker columns and
\* fewer than 2 of glucose/bloodpressure/bmi fails with the unsupported-format
\* error before any row is read; training never proceeds without features.
C10_UnknownShapeFails ==
  Trained =>
    /\ (Present(comprehensiveFeatures) < 5 /\ Present(basicFeatures) < 2) =>
         /\ lastCall.run.threw = "Unsupported dataset format"
         /\ lastCall.run.steps = <<"type">>
         /\ lastCall.run.kept = <<>> /\ lastCall.run.X = <<>>
         /\ model = NoModel
    /\ Did("rows") => lastCall.run.features # <<>>

\* C10 witness: a dataset with one basic feature and an outcome column, and rows
C10_Witness ==
  /\ Trained
  /\ Present(comprehensiveFeatures) < 5
  /\ Present(basicFeatures) = 1
  /\ Len(dataset.data) > 0
  /\ lastCall.run.threw = "Unsupported dataset format"

\* C4: the normalization parameters, weights and bias of a Model are determined
\* by the first floor(0.8 n) surviving rows alone: two runs whose surviving rows
\* agree in number, in every label and in the rows before floor(0.8 n) return
\* the same means, standard deviations, weights and bias.
C4_HoldoutOnlyForMetrics ==
  (/\ model # NoModel
   /\ earlier # NoModel
   /\ model.features = earlier.features
   /\ Len(model.X) = Len(earlier.X)
   /\ model.y = earlier.y
   /\ sliceTo(model.X, model.splitIndex) = sliceTo(earlier.X, earlier.splitIndex))
  => /\ model.means = earlier.means
     /\ model.stds = earlier.stds
     /\ model.weights = earlier.weights
     /\ model.bias = earlier.bias

\* ------------------------------------------------------------------------
\* Properties of LogisticRegression (checked under SpecTrainer)
\* ------------------------------------------------------------------------
\* a matrix with a row whose length is not the first row's
Ragged(X) == \E j \in DOMAIN X : Len(X[j]) # Len(X[1])

TrainOver == lastCall.op = "train" /\ frame = NoFrame

\* C11: train on a matrix in which some row's length differs from the first
\* row's raises an error instead of producing weights.
C11_TrainChecksDimension ==
  (TrainOver /\ Ragged(lastCall.X)) =>
    /\ lastCall.threw # ""
    /\ log[lastCall.self].state # "Trained"

\* a predict call on a trained object with a vector of the object's dimension
PredictOnTrained ==
  /\ lastCall.op = "predict"
  /\ log[lastCall.self].state = "Trained"
  /\ Len(lastCall.input) = Len(heap[lastCall.self].weights)

AllZero(lr) == lr.bias = Num(0) /\ \A k \in DOMAIN lr.weights : lr.weights[k] = Num(0)

\* C13: on a trained LogisticRegression, predict(x) is 1 if and only if
\* predictProbability(x) >= 0.5 and 0 otherwise; a score of exactly 0.5 (all
\* weights and the bias zero) gives 1.
C13_PredictIffProbability ==
  PredictOnTrained =>
    LET p == predictProbability(heap[lastCall.self], lastCall.input)
        atLeastHalf == p.k = "fin" /\ 2 * p.v >= Scale
    IN /\ lastCall.result = (IF atLeastHalf THEN Num(1) ELSE Num(0))
       /\ AllZero(heap[lastCall.self]) => (2 * p.v = Scale /\ lastCall.result = Num(1))

\* C13 witness: predict on an object whose training left every weight and the
\* bias at zero, the score being exactly 0.5
C13_Witness ==
  /\ PredictOnTrained
  /\ AllZero(heap[lastCall.self])
  /\ lastCall.result = Num(1)

\* C17: two train runs with identical X and y end with identical weights and
\* bias, whatever training the objects went through before.
C17_TrainingDeterministic ==
  \A a, b \in Objects :
    (/\ log[a].state = "Trained" /\ log[b].state = "Trained"
     /\ log[a].X = log[b].X /\ log[a].y = log[b].y)
    => heap[a] = heap[b]

\* C17 witness: a fresh object and one that had been trained before, both
\* trained on the same X and y, with weights that moved away from zero
C17_Witness ==
  /\ log[1].state = "Trained" /\ log[2].state = "Trained"
  /\ log[1].X = log[2].X /\ log[1].y = log[2].y
  /\ log[1].again /\ ~log[2].again
  /\ ~AllZero(heap[1])
  /\ heap[1] = heap[2]

\* the weights and bias after exactly n passes over X, y from zero
RECURSIVE Passes(_, _, _)
Passes(X, y, n) ==
  IF n = 0 THEN [weights |-> [k \in 1..Len(X[1]) |-> Num(0)], bias |-> Num(0)]
  ELSE TrainStep(X, y, Passes(X, y, n - 1))

\* C18: a train call on a non-empty matrix ends, after exactly `iterations`
\* update steps, Uninitialized -> Training -> Trained; once it is over no
\* predict call changes the weights or the bias.
C18_ExactlyIterationsSteps ==
  /\ [](\A o \in Objects :
          log[o].state = "Trained" =>
            /\ log[o].updates = iterations
            /\ heap[o] = Passes(log[o].X, log[o].y, iterations))
  /\ \A o \in Objects : (log[o].state = "Training") ~> (log[o].state = "Trained")
  /\ [][\A o \in Objects :
          /\ log[o].state = "Uninitialized" => log'[o].state \in {"Uninitialized", "Training"}
          /\ log[o].state = "Training" => log'[o].state \in {"Training", "Trained"}
          /\ (frame = NoFrame /\ frame' = NoFrame) => heap'[o] = heap[o]]_vars

\* C18 witness: predict called on an object whose train call made its
\* `iterations` update steps
C18_Witness ==
  /\ PredictOnTrained
  /\ log[lastCall.self].updates = iterations
  /\ ~AllZero(heap[lastCall.self])

\* ------------------------------------------------------------------------
\* Properties of the returned Model (checked under Spec and SpecPair)
\* ------------------------------------------------------------------------
\* C12: the returned Model exposes predict, predictProbability, features,
\* targetColumn and metrics, and predictProbability returns a number in [0, 1].
C12_ModelMembers ==
  /\ model # NoModel =>
       {"predict", "predictProbability", "features", "targetColumn", "metrics"}
         \subseteq modelMembers
  /\ (lastCall.op = "predictProbability" /\ Len(lastCall.input) = Len(model.features)) =>
       /\ lastCall.result.threw = ""
       /\ Ge(lastCall.result.probability, Num(0))
       /\ Ge(Num(1), lastCall.result.probability)

\* the labels a Model's predict returns for the inputs of the model, given
\* the objects of the heap
LabelsOf(m, objects) ==
  [x \in PredictInputs(m) |-> modelPredict(m, objects[m.trainer], x).label]

\* C14: a returned Model is immutable and independent of the others: no
\* predict call on any Model and no further trainDiabetesModel call changes
\* its weights, bias or normalization parameters, so predict(x) on it returns
\* the same label for the same x at every point.
C14_ModelsImmutable ==
  [][\A m \in {model, earlier} \ {NoModel} :
       /\ m \in {model', earlier'}
       /\ heap'[m.trainer] = heap[m.trainer]
       /\ LabelsOf(m, heap') = LabelsOf(m, heap)]_vars

\* C14 witness: predict on the earlier of two Models trained on different
\* datasets, whose weights differ
C14_Witness ==
  /\ model # NoModel /\ earlier # NoModel
  /\ model.dataset # earlier.dataset
  /\ heap[model.trainer] # heap[earlier.trainer]
  /\ lastCall.op = "predict" /\ lastCall.on = "earlier"
  /\ lastCall.result.threw = ""

PredictOnModel ==
  /\ lastCall.op = "predict" /\ lastCall.on = "model"
  /\ Len(lastCall.input) = Len(model.features)

\* C15: predict normalizes input position i with the (mean, std) pair of
\* feature i computed during training, by the formula of the training matrix;
\* for a raw training row the label is the trainer's label of the normalized
\* row used in training.
C15_PredictReusesNormalization ==
  PredictOnModel =>
    LET x == lastCall.input
        z == lastCall.result.normalizedInput
    IN /\ Len(z) = Len(x)
       /\ \A i \in DOMAIN x :
            z[i] = (IF model.stds[i] = Num(0) THEN Num(0)
                    ELSE Div(Sub(x[i], model.means[i]), model.stds[i]))
       /\ \A j \in DOMAIN model.X :
            x = model.X[j] =>
              /\ z = model.XNormalized[j]
              /\ lastCall.result.label = predict(heap[model.trainer], model.XNormalized[j])

\* C15 witness: predict called with a raw training row of a Model trained on
\* several rows, whose normalized form is a finite non-zero vector
C15_Witness ==
  /\ PredictOnModel
  /\ Len(model.X) >= 2
  /\ lastCall.input \in Range(model.X)
  /\ \A i \in DOMAIN lastCall.input : IsFinite(lastCall.result.normalizedInput[i])
  /\ \E i \in DOMAIN lastCall.input : lastCall.result.normalizedInput[i] # Num(0)

\* C16: for a feature column that is constant over all surviving rows the
\* stored standard deviation is 1 and the normalized value of the feature is
\* 0 in every row, never NaN.
C16_ConstantColumnIsZero ==
  Did("normalize") =>
    LET r == lastCall.run
    IN \A i \in DOMAIN r.features :
         (\A j \in DOMAIN r.X : r.X[j][i] = r.X[1][i]) =>
           /\ r.stds[i] = Num(1)
           /\ \A j \in DOMAIN r.X : r.XNormalized[j][i] = Num(0)

\* ------------------------------------------------------------------------
\* Properties of predictDiabetes (checked under SpecScorer)
\* ------------------------------------------------------------------------
Scored == prediction # NoPrediction

\* C19: on the neutral input the linear score is below 0, the probability is
\* below 0.5, the prediction is 0 and the risk is 'low'.
C19_NeutralInputIsLow ==
  (Scored /\ formData = NeutralInput) =>
    /\ IsFinite(scoreOf(formData)) /\ scoreOf(formData).v < 0
    /\ IsFinite(prediction.probability) /\ 2 * prediction.probability.v < ScorerScale
    /\ prediction.prediction = 0
    /\ prediction.risk = "low"

\* C19 witness: predictDiabetes has scored the neutral input
C19_Witness ==
  /\ Scored
  /\ formData = NeutralInput
  /\ prediction.risk = "low"

\* C20: for every input the confidence is clamp(|probability - 0.5| * 2,
\* 0.6, 0.95), so it lies in [0.6, 0.95]; the risk is 'high' exactly when the
\* prediction is 1, which is exactly when the probability is at least 0.5.
C20_ConfidenceClamped ==
  Scored =>
    /\ IsFinite(prediction.confidence)
    /\ prediction.confidence.v >= 600 /\ prediction.confidence.v <= 950
    /\ IsFinite(prediction.probability)
    /\ LET raw == 2 * Abs(prediction.probability.v - 500)
       IN prediction.confidence.v = (IF raw < 600 THEN 600 ELSE IF raw > 950 THEN 950 ELSE raw)
    /\ (prediction.risk = "high") <=> (prediction.prediction = 1)
    /\ (prediction.prediction = 1) <=> (prediction.probability.v >= 500)

\* the fallback constants of the fields of predictDiabetes's input
Fallbacks ==
  [pregnancies |-> Milli(0), glucose |-> Milli(100000), bloodpressure |-> Milli(70000),
   skinthickness |-> Milli(20000), insulin |-> Milli(80000), bmi |-> Milli(25000),
   diabetespedigreefunction |-> Milli(500), age |-> Milli(30000)]

Absent(x) == x.k = "undefined" \/ x.k = "nan"

\* the input with every missing or NaN field replaced by its fallback constant
WithFallbacks(input) ==
  [f \in DOMAIN input |-> IF Absent(input[f]) THEN Fallbacks[f] ELSE input[f]]

\* C21: predictDiabetes returns a result for every combination of present,
\* undefined, NaN, zero and negative fields, and scores each field whose
\* supplied value is missing or NaN as that field's fallback constant.
C21_MissingFieldsDefaulted ==
  Scored =>
    /\ DOMAIN prediction = {"prediction", "probability", "risk", "confidence"}
    /\ \A f \in DOMAIN formData :
         Absent(formData[f]) => cleanedInputOf(formData)[f] = Fallbacks[f]
    /\ prediction = predictDiabetes(WithFallbacks(formData))
    /\ (\A f \in DOMAIN formData : formData[f].k # "inf") =>
         /\ IsFinite(prediction.probability)
         /\ prediction.prediction \in {0, 1}

\* C21 witness: predictDiabetes has scored an input with a missing field, a
\* NaN field and a present field, and one with no field at all
C21_Witness ==
  /\ Scored
  /\ \/ /\ formData.glucose = Undefined
        /\ formData.bmi = NaN
        /\ formData.age = NeutralInput.age
        /\ IsFinite(prediction.probability)
     \/ /\ \A f \in DOMAIN formData : formData[f] = Undefined
        /\ prediction = predictDiabetes(Fallbacks)

\* C22: the insulin-glucose term added to the linear score is
\* (insulin/100)*(glucose/100)*0.12 when the supplied insulin is greater than
\* 0, and 0 when the supplied insulin is 0, negative or missing.
C22_InsulinGlucoseTerm ==
  Scored =>
    LET cleaned == cleanedInputOf(formData)
        term == Times(engineerFeatures(cleaned).insulinGlucose, Milli(120))
        insulin == ToNumber(formData.insulin)
    IN term = (IF Gt(insulin, Milli(0))
                 THEN Times(Times(Over(insulin, Milli(100000)),
                                  Over(cleaned.glucose, Milli(100000))), Milli(120))
                 ELSE Milli(0))

\* ------------------------------------------------------------------------
\* The update rule of LogisticRegression.train (checked under SpecTrainer)
\* ------------------------------------------------------------------------
\* sum over the rows i of residual[i] * X[i][j]
WeightedSum(X, residual, j) ==
  SumFrom([i \in DOMAIN X |-> Mul(residual[i], X[i][j])], 1, Num(0))

\* weights[j] - learningRate * sum_i(residual_i * x_ij) / n for every j and
\* bias - learningRate * sum_i(residual_i) / n
Descend(X, residual, before) ==
  [weights |-> [j \in DOMAIN before.weights |->
                  Sub(before.weights[j],
                      Div(Mul(learningRate, WeightedSum(X, residual, j)), Num(Len(X))))],
   bias |-> Sub(before.bias,
                Div(Mul(learningRate, SumFrom(residual, 1, Num(0))), Num(Len(X))))]

\* the full-batch step: every prediction from the weights and bias before it
FullBatchStep(X, y, before) ==
  Descend(X, [i \in DOMAIN X |-> Sub(predictProbability(before, X[i]), y[i])], before)

\* the first step in closed form: every prediction is 0.5
FirstStep(X, y) ==
  Descend(X, [i \in DOMAIN X |-> Sub(Fin(Scale \div 2), y[i])],
          [weights |-> [j \in DOMAIN X[1] |-> Num(0)], bias |-> Num(0)])

Training == frame # NoFrame /\ ~Ragged(frame.X)

\* C23: train starts every call from k zero weights and a zero bias; each
\* iteration computes all predictions from the weights and bias before the
\* step and then lowers weights[j] by learningRate * sum_i((prediction_i -
\* y_i) * x_ij) / n and the bias by learningRate * sum_i(prediction_i - y_i)
\* / n; after the first iteration weights[j] = -learningRate * sum_i((0.5 -
\* y_i) * x_ij) / n and bias = -learningRate * sum_i(0.5 - y_i) / n.
C23_FullBatchUpdate ==
  Training =>
    LET lr == heap[frame.self]
    IN /\ Len(lr.weights) = Len(frame.X[1])
       /\ frame.i = 0 => AllZero(lr)
       /\ frame.i >= 1 => lr = FullBatchStep(frame.X, frame.y, frame.before)
       /\ frame.i = 1 =>
            /\ AllZero(frame.before)
            /\ lr = FirstStep(frame.X, frame.y)

\* C23 witness: the second pass of a train call on two rows of two features,
\* on an object trained before, starting from weights the first pass moved
C23_Witness ==
  /\ Training
  /\ frame.i = 2
  /\ Len(frame.X) = 2 /\ Len(frame.X[1]) = 2
  /\ log[frame.self].again
  /\ ~AllZero(frame.before)
  /\ heap[frame.self] # frame.before

\* ------------------------------------------------------------------------
\* The feature order of a returned Model (checked under Spec)
\* ------------------------------------------------------------------------
\* the canonical feature list of a variant
CanonicalFeatures(datasetType) ==
  IF datasetType = "basic"
    THEN <<<<"g", "l", "u", "c", "o", "s", "e">>,
           <<"b", "l", "o", "o", "d", "p", "r", "e", "s", "s", "u", "r", "e">>,
           <<"b", "m", "i">>,
           <<"a", "g", "e">>>>
    ELSE featuresComprehensive

\* C24: the features of a returned Model are the names of the variant's
\* canonical list that occur among the dataset's normalized column names, in
\* canonical order whatever the dataset's column order; every row of X holds,
\* position by position, the value of a column of that feature, and the
\* weight vector has one entry per feature.
C24_FeaturesCanonicalOrder ==
  model # NoModel =>
    LET normalizedColumns == normalizedColumnsOf(model.dataset)
        canonical == CanonicalFeatures(model.datasetType)
    IN /\ Len(featuresComprehensive) = 21
       /\ model.features =
            SelectSeq(canonical, LAMBDA f : f \in Range(normalizedColumns))
       /\ Len(heap[model.trainer].weights) = Len(model.features)
       /\ Len(model.means) = Len(model.features)
       /\ \A j \in DOMAIN model.X :
            /\ Len(model.X[j]) = Len(model.features)
            /\ \A i \in DOMAIN model.features :
                 \E c \in DOMAIN model.dataset.columns :
                   /\ normalizedColumns[c] = model.features[i]
                   /\ model.X[j][i] =
                        Number(Get(model.dataset.data[model.kept[j]],
                                   model.dataset.columns[c]))

\* C24 witness: a Model trained on a dataset whose columns come in the order
\* outcome, age, bmi, AGE, glucose, and whose features are glucose, bmi, age
C24_Witness ==
  /\ model # NoModel
  /\ model.dataset.columnList = ColumnsBasicReordered
  /\ model.features = <<n_glucose, n_bmi, n_age>>
  /\ Len(heap[model.trainer].weights) = 3

\* ------------------------------------------------------------------------
\* The lifecycle of the Model in TrainModel (checked under SpecComponent)
\* ------------------------------------------------------------------------
\* C25: once the TrainModel component has received a different dataset it no
\* longer holds or displays the model trained on the earlier one, and
\* training can be started for the new dataset.
C25_ModelDiscardedOnNewDataset ==
  /\ model # NoModel => model.dataset = dataset
  /\ (dataset # NoDataset /\ lastCall = NoCall) => StartTrainingRendered

\* C26: whenever at least one row of a recognized dataset survives filtering,
\* trainDiabetesModel completes and returns a Model with its metrics; it
\* raises no error other than the unsupported-format, missing-target and
\* no-data errors.
C26_AnySurvivingRowTrains ==
  /\ Trained =>
       lastCall.run.threw \in {"", "Unsupported dataset format", "Target column not found",
                               "No valid data found for training"}
  /\ (Did("rows") /\ Len(lastCall.run.kept) >= 1) =>
       /\ lastCall.run.threw = ""
       /\ Did("metrics")
       /\ model # NoModel /\ model.metrics = lastCall.run.metrics

\* ------------------------------------------------------------------------
\* Validation against training (checked under SpecUpload)
\* ------------------------------------------------------------------------
\* C27: every dataset for which validateDiabetesDataset returns no errors
\* passes the configuration step of trainDiabetesModel: its type is not
\* 'unknown' and the target column of its variant is present, so neither the
\* unsupported-format nor the target-not-found error is raised.
C27_ValidatedDatasetConfigures ==
  (Trained /\ validateDiabetesDataset(lastCall.run.dataset) = <<>>) =>
    /\ getDatasetType(lastCall.run.dataset) # "unknown"
    /\ lastCall.run.threw \notin {"Unsupported dataset format", "Target column not found"}
    /\ Did("rows")


\* ------------------------------------------------------------------------
\* Properties of the user store and the Predictions form (checked under SpecApp)
\* ------------------------------------------------------------------------
Elements(seq) == {seq[i] : i \in DOMAIN seq}

\* every prediction record stored for a user is stored for that user in the
\* next state as well
HistoryKept ==
  \A i \in DOMAIN getStoredUsers(localStorage) :
    \A record \in Elements(getStoredUsers(localStorage)[i].predictions) :
      \E j \in DOMAIN getStoredUsers(localStorage') :
        /\ getStoredUsers(localStorage')[j].id = getStoredUsers(localStorage)[i].id
        /\ record \in Elements(getStoredUsers(localStorage')[j].predictions)

\* C28: prediction history is append-only: a prediction record that
\* updateUserPredictions stored for a user stays in that user's stored
\* predictions list through every later operation (predictions, profile
\* saves, sign-out, sign-in)
C28_HistoryAppendOnly == [][HistoryKept]_vars

\* C29: whenever the Predictions form displays a result, the result is the
\* one predictDiabetes gives for the form values currently shown
C29_ResultMatchesShownValues ==
  (PredictionsMounted /\ prediction # NoPrediction)
    => prediction = predictDiabetes(formData)

\* C30: the current-user record, when present, has the name, email and
\* predictions of the record with the same email in the stored user list
C30_CurrentUserMatchesList ==
  getCurrentUser(localStorage) # NoUser =>
    \E i \in DOMAIN getStoredUsers(localStorage) :
      /\ getStoredUsers(localStorage)[i].email = getCurrentUser(localStorage).email
      /\ getStoredUsers(localStorage)[i].name = getCurrentUser(localStorage).name
      /\ getStoredUsers(localStorage)[i].predictions = getCurrentUser(localStorage).predictions

====
